---- MODULE Spec2Model ----
(***************************************************************************)
(* The incremental synchronization engine of the ChatGPT local-sync        *)
(* extension: the background service worker (background.js, lines 1-496)   *)
(* and the content script (content.js, lines 630-2218 of the same file),   *)
(* with the remote collection, chrome.storage.local and the synced folder  *)
(* as environment.  One action per handler or continuation: a handler runs *)
(* to completion (JavaScript), an await is the boundary between actions.   *)
(***************************************************************************)
EXTENDS Integers, Sequences, FiniteSets, TLC

----------------------------------------------------------------------------
(* Bounds of the model.                                                    *)

\* Record ids, in the order the remote breaks ties of update_time.
IdOrder == <<"A", "B", "C">>
Ids == {IdOrder[i] : i \in 1..Len(IdOrder)}

\* update_time values are 1..MaxTime; 0 is a missing (falsy) time.
MaxTime == 2
\* The clock counts whole days, 0..MaxNow.
MaxNow == 2
\* Sync runs the background may start.
MaxRuns == 2
\* Changes of the remote collection that one behaviour contains.
MaxRemoteChanges == 1
\* Events outside the plain course of a sync that one behaviour contains: a
\* failing request, write or deletion, a body whose update_time differs from
\* the record's, a missing folder or tab, a closed tab, the timeout.
MaxFaults == 1
\* Worker pools left behind by failed runs that are tracked at a time.
MaxOrphans == 1
\* The largest value of options.maxParallelFetch that is configured.
MaxParallel == 2
\* The page size the lister asks for (limit = 100 in the source).
PageLimit == 2
\* The fallback page size (50 in the source).
HalfLimit == 1
\* The page ceiling (maxPages = 200 in the source).
MaxPages == 2
\* Messages between two count-triggered checkpoints (50 in the source).
CheckpointMinMessages == 2

----------------------------------------------------------------------------
(* Program constants.                                                      *)

\* MAX_PARTIAL_AGE_MS = 24 h, in days.
MAX_PARTIAL_AGE == 1

NullTime == -1
NoCursor == << >>
EmptyMap == << >>

Max(a, b) == IF a >= b THEN a ELSE b
Min(a, b) == IF a <= b THEN a ELSE b

\* obj[k] of a JavaScript object used as a map, 0 when the key is absent.
Get(m, k) == IF k \in DOMAIN m THEN m[k] ELSE 0
\* obj[k] = v
Put(m, k, v) == [x \in (DOMAIN m) \cup {k} |-> IF x = k THEN v ELSE m[x]]
\* the object restricted to the keys in s
Restrict(m, s) == [x \in (DOMAIN m) \cap s |-> m[x]]

EmptySyncState ==
  [conversations |-> EmptyMap, meta |-> EmptyMap, lastRun |-> EmptyMap,
   lastFullInventoryAt |-> NullTime, inventoryCursor |-> NoCursor,
   inventoryInProgress |-> FALSE]

VARIABLES
  \* environment
  now,              \* Date.now(), in days
  remote,           \* the remote collection: id -> update_time, 0 = no such record
  remoteChanges,    \* changes of the remote collection so far
  faults,           \* events outside the plain course so far
  storedOptions,    \* chrome.storage.local options; maxParallelFetch as its text
  shape,            \* the shape of the listing answers of the remote
  stored,           \* chrome.storage.local syncState
  index,            \* index.json of the synced folder: << >> (no file) or <<id -> update_time>>
  artifacts,        \* ids with conversation files in the synced folder
  \* background service worker
  bgInProgress,     \* syncInProgress (background.js:17)
  bgPc,             \* "idle" | "starting" | "running" | "hung"
  bgOptions,        \* options of the run
  nextState,        \* nextState of runSync
  bgCurrentIds,     \* currentIds of runSync (background)
  fullInventoryMode,
  checkpointCount,
  runCount,         \* runs started so far
  startState,         \* what the last run found persisted: conversations,
                      \* lastFullInventoryAt, inventoryCursor (history)
  lastPass,         \* how the last background run ended (history)
  lastError,        \* status.lastError in chrome.storage.local, "" is null
  finishRecorded,   \* status.lastSyncFinishedAt is not older than status.lastSyncStartedAt:
                    \* no run has started whose end the status does not record
  reason,           \* status.lastSyncReason: the reason of the last runSync that took the guard
  forceMsg,         \* the force-full-inventory handler: where it is, what it read, what it answered
  startSync,        \* the start-sync message in flight to the content script
  chan,             \* messages in flight from the content script to the background
  csPortLive,       \* the port of the content run is still connected
  \* content script
  csInProgress,     \* syncInProgress (content.js)
  csPc,             \* "idle" | "listing" | "draining" | "complete" | "failed"
  cs,               \* the locals of runSync (content)
  queue,            \* queue of runSync (content)
  queueWaiters,     \* workers blocked in dequeueItem
  busy,             \* the items workers are fetching or writing
  exited,           \* workers that returned
  pageReq,          \* the listing page request in flight
  orphans,          \* queues and busy workers of runs that ended in sync-error
  delAttempted,     \* ids deleteConversation was called for in the last removal step
  delFailed,        \* the ids among them for which it threw
  retry,            \* body fetches that failed in the last completed run (history)
  quota,            \* what chrome.storage.local takes under syncState: "all" | "slim" | "none"
  bar,              \* the progress bar of the widget: width in percent and "processed / total"
  folderAccessState, \* what refreshFolderStatus found when the page loaded: "ok" | "permission"
  syncNow           \* the last sync-now message: whether the guard turned it away, and the response

\* The part of a sync state the history variable startState keeps.
StartOf(state) ==
  [conversations |-> state.conversations,
   lastFullInventoryAt |-> state.lastFullInventoryAt,
   inventoryCursor |-> state.inventoryCursor]

\* syncState.conversations as the last run found it.
startConversations == startState.conversations

envVars == <<now, remote, remoteChanges, faults, storedOptions, shape, stored, index, artifacts>>
bgVars == <<bgInProgress, bgPc, bgOptions, nextState, bgCurrentIds, fullInventoryMode,
            checkpointCount, runCount, startState, lastPass, lastError,
            finishRecorded>>
portVars == <<startSync, chan, csPortLive>>
csVars == <<csInProgress, csPc, cs, queue, queueWaiters, busy, exited,
            pageReq, orphans, delAttempted, delFailed, retry, bar>>
forceVars == <<reason, forceMsg>>
vars == <<envVars, bgVars, portVars, csVars, forceVars, quota, folderAccessState, syncNow>>

----------------------------------------------------------------------------
(* Pure helpers of the content script.                                     *)

\* A number stays, anything else (a missing field) is 0.
toEpochSeconds(value) == IF value \in Nat THEN value ELSE 0

\* CreateTime is the create_time the remote reports for every record.
CreateTime == 1

\* A variant of ObservedTime with no fallback on create_time.
ObservedTimeNoFallback(item) == toEpochSeconds(item.update_time)

\* toEpochSeconds(item.update_time) || toEpochSeconds(item.create_time)
ObservedTime(item) ==
  IF toEpochSeconds(item.update_time) # 0
  THEN toEpochSeconds(item.update_time)
  ELSE toEpochSeconds(item.create_time)

RECURSIVE MaxOver(_, _)
MaxOver(m, s) ==
  IF s = {} THEN 0
  ELSE LET k == CHOOSE x \in s : TRUE
       IN Max(m[k], MaxOver(m, s \ {k}))

getMaxKnownUpdateTime(knownConversations) ==
  MaxOver(knownConversations, DOMAIN knownConversations)

\* A stored lastFullInventoryAt that is no date.
UnparseableTime == -2
\* NaN
NotFinite == 0 - 1000
\* Date.parse: the day of a date, NaN for anything else.
DateParse(value) == IF value = UnparseableTime THEN NotFinite ELSE value

\* shouldForceFullInventory without the Number.isFinite test: a comparison
\* with NaN is false.
shouldForceFullInventoryUnchecked(options, knownConversations, lastFullInventoryAt) ==
  IF DOMAIN knownConversations = {} THEN TRUE
  ELSE IF options.deleteRemoved THEN TRUE
  ELSE IF lastFullInventoryAt = NullTime THEN TRUE
  ELSE LET lastFull == DateParse(lastFullInventoryAt)
       IN lastFull # NotFinite /\ now - lastFull > MAX_PARTIAL_AGE

shouldForceFullInventory(options, knownConversations, lastFullInventoryAt) ==
  IF DOMAIN knownConversations = {} THEN TRUE
  ELSE IF options.deleteRemoved THEN TRUE
  ELSE IF lastFullInventoryAt = NullTime THEN TRUE
  ELSE LET lastFull == DateParse(lastFullInventoryAt)
       IN IF lastFull = NotFinite THEN TRUE
          ELSE now - lastFull > MAX_PARTIAL_AGE

\* getResumeOffset without the staleness test: a cursor of any age is resumed.
getResumeOffsetAnyAge(inventoryCursor) ==
  IF inventoryCursor = NoCursor THEN 0 ELSE inventoryCursor[1].offset

getResumeOffset(inventoryCursor) ==
  IF inventoryCursor = NoCursor THEN 0
  ELSE IF now - inventoryCursor[1].updatedAt > MAX_PARTIAL_AGE THEN 0
  ELSE inventoryCursor[1].offset

\* An option value is kept as the text String() gives for it, a sequence of
\* characters: Number.parseInt applies ToString to its argument first.
DigitChars == <<"0", "1", "2", "3", "4", "5", "6", "7", "8", "9">>
IsDigit(c) == \E i \in 1..10 : DigitChars[i] = c
DigitOf(c) == (CHOOSE i \in 1..10 : DigitChars[i] = c) - 1

\* String(n) of an integer
RECURSIVE NumberToString(_)
NumberToString(n) ==
  IF n < 0 THEN <<"-">> \o NumberToString(0 - n)
  ELSE IF n < 10 THEN <<DigitChars[n + 1]>>
  ELSE NumberToString(n \div 10) \o <<DigitChars[(n % 10) + 1]>>

\* leading white space is skipped
RECURSIVE TrimLeft(_)
TrimLeft(text) ==
  IF text # << >> /\ text[1] = " " THEN TrimLeft(Tail(text)) ELSE text

\* The value of the longest prefix of decimal digits, NaN when it is empty.
RECURSIVE ParseDigits(_, _, _)
ParseDigits(text, acc, seen) ==
  IF text # << >> /\ IsDigit(text[1])
  THEN ParseDigits(Tail(text), acc * 10 + DigitOf(text[1]), TRUE)
  ELSE IF seen THEN acc ELSE NotFinite

\* Number.parseInt(value, 10)
parseInt(value) ==
  LET text == TrimLeft(value)
      signed == text # << >> /\ text[1] \in {"-", "+"}
      n == ParseDigits(IF signed THEN Tail(text) ELSE text, 0, FALSE)
  IN IF n = NotFinite THEN NotFinite
     ELSE IF signed /\ text[1] = "-" THEN 0 - n ELSE n

\* A variant of clampParallelFetch that falls back on one worker.
clampParallelFetchSingle(value) ==
  LET parsed == parseInt(value)
  IN IF parsed = NotFinite THEN 1 ELSE Min(10, Max(1, parsed))

clampParallelFetch(value) ==
  LET parsed == parseInt(value)
  IN IF parsed = NotFinite THEN 3 ELSE Min(10, Max(1, parsed))

\* DEFAULT_OPTIONS.maxParallelFetch (background.js:6)
DefaultParallelFetch == 3

\* normalizeOptions, for the two options of the model.
normalizeOptions(options) ==
  LET parallelRaw == parseInt(options.maxParallelFetch)
  IN [deleteRemoved |-> options.deleteRemoved = TRUE,
      maxParallelFetch |-> IF parallelRaw # NotFinite
                           THEN Min(10, Max(1, parallelRaw))
                           ELSE DefaultParallelFetch]

\* index.json as readIndex returns it: << >> is null.
readIndex == index

mergeKnownState(knownConversations, knownMeta, indexState) ==
  IF indexState = << >>
  THEN [conversations |-> knownConversations, meta |-> knownMeta]
  ELSE LET ix == indexState[1]
       IN [conversations |->
             [id \in (DOMAIN knownConversations) \cup (DOMAIN ix) |->
                IF id \in DOMAIN ix
                THEN Max(Get(knownConversations, id), ix[id])
                ELSE knownConversations[id]],
           meta |->
             [id \in (DOMAIN knownMeta) \cup (DOMAIN ix) |->
                IF id \notin DOMAIN knownMeta THEN ix[id]
                ELSE IF id \notin DOMAIN ix THEN knownMeta[id]
                ELSE IF ix[id] >= knownMeta[id]
                     THEN Max(knownMeta[id], ix[id])
                     ELSE knownMeta[id]]]

----------------------------------------------------------------------------
(* The remote service.                                                     *)

Present(r) == {id \in Ids : r[id] # 0}
Rank(id) == CHOOSE i \in 1..Len(IdOrder) : IdOrder[i] = id
\* order=updated: update_time descending
Before(r, a, b) == r[a] > r[b] \/ (r[a] = r[b] /\ Rank(a) < Rank(b))
Listing(r) ==
  LET P == Present(r)
  IN [i \in 1..Cardinality(P) |->
        LET id == CHOOSE x \in P : Cardinality({o \in P : Before(r, o, x)}) = i - 1
        IN [id |-> id, update_time |-> r[id], create_time |-> CreateTime]]

\* The items of the page at offset with limit candidate.
PageItems(r, offset, candidate) ==
  LET l == Listing(r)
  IN SubSeq(l, offset + 1, Min(offset + candidate, Len(l)))

\* [limit, 100, 50] without repetitions
PageLimits(limit) ==
  LET all == <<limit, PageLimit, HalfLimit>>
      keep == {i \in 1..3 : \A j \in 1..(i - 1) : all[j] # all[i]}
  IN [k \in 1..Cardinality(keep) |->
        all[CHOOSE i \in keep : Cardinality({j \in keep : j < i}) = k - 1]]

\* The shapes of a listing answer: with has_more, with total, with neither.
Shapes == {"has_more", "total", "bare"}
\* The shapes the remote of the model answers with.
RemoteShapes == {"total", "bare"}

\* What fetchConversationPage returns for an answer of the given shape.
PageResult(r, offset, candidate, sh) ==
  LET items == PageItems(r, offset, candidate)
      count == Cardinality(Present(r))
      total == IF sh = "total" THEN count ELSE Len(items)
      mins == {ObservedTime(items[i]) : i \in 1..Len(items)}
  IN [items |-> items,
      total |-> total,
      hasMore |-> IF sh = "has_more" THEN offset + Len(items) < count
                  ELSE offset + Len(items) < total,
      limit |-> candidate,
      pageMinUpdate |-> IF mins = {} THEN 0
                        ELSE CHOOSE t \in mins : \A u \in mins : t <= u]

----------------------------------------------------------------------------
(* Content script: the progress bar of the widget.                         *)

\* A variant of getProgressTarget that takes the total for the target while
\* the listing goes on.
getProgressTargetPlain(processed, total, listComplete) == total

\* getProgressTarget(processed, total, listComplete); 0 is falsy.
getProgressTarget(processed, total, listComplete) ==
  IF listComplete THEN total
  ELSE IF total = 0 THEN (IF processed # 0 THEN processed + 1 ELSE 0)
  ELSE Max(total, processed + 1)

\* A variant of progressTotal that trusts the total of the remote alone.
progressTotalHinted(c) == c.totalHint

\* progressTotal(): Math.max(totalHint || 0, listedCount || 0)
progressTotal(c) == Max(c.totalHint, c.listedCount)

\* The bar with nothing shown: width "0%" and no text.
EmptyBar == [width |-> 0, processed |-> 0, total |-> 0]

\* updateProgress(processed, total, allowComplete): the bar it leaves.
updateProgress(processed, total, allowComplete) ==
  IF total = 0 THEN EmptyBar
  ELSE LET percent == (processed * 100) \div total
       IN [width |-> IF allowComplete THEN Min(100, percent) ELSE Min(99, percent),
           processed |-> processed, total |-> total]

\* setSyncing(false) at the end of a run calls applyGlobalStatus with the status
\* the tab has cached: the bar is left alone (folderAccessState is not "ok":
\* the folder permission was granted after the page had loaded; or the
\* status says syncing and holds no progress total), takes the
\* progress of the status with allowComplete true (sent: the last progress
\* the run has computed for a sync-progress message), or is emptied (the
\* status says the run is over).
applyGlobalStatus(current, sent) ==
  IF folderAccessState # "ok" THEN {current}
  ELSE {current, updateProgress(0, 0, FALSE)} \cup
       (IF sent.total # 0 THEN {updateProgress(sent.processed, sent.total, TRUE)} ELSE {})

----------------------------------------------------------------------------
(* Initial state: nothing synced yet, every record present remotely.       *)

CsIdle ==
  [options |-> [deleteRemoved |-> FALSE, parallelLimit |-> 0],
   knownConversations |-> EmptyMap, metaMap |-> EmptyMap, currentIds |-> {},
   forceFullInventory |-> FALSE, didFullInventory |-> FALSE,
   stopAfterTime |-> NullTime, offset |-> 0, limit |-> 0, pageCount |-> 0,
   listedCount |-> 0, pageStates |-> << >>, nextCursorIndex |-> 0,
   listingDone |-> FALSE, errorCount |-> 0, updatedCount |-> 0, skippedCount |-> 0,
   resumeOffset |-> 0,
   listEnd |-> "", failedFetches |-> {}, unclassifiedAtRequest |-> 0,
   processed |-> 0, totalHint |-> 0, target |-> 0]

NoOptions == [deleteRemoved |-> FALSE, maxParallelFetch |-> 0]

\* No force-full-inventory message is being handled, none was answered.
\* runs is the number of runs started when the message arrived (history).
NoForce == [pc |-> "idle", current |-> EmptySyncState, response |-> "", runs |-> 0]

\* No sync-now message was handled.
NoSyncNow == [rejected |-> FALSE, response |-> ""]

\* No background run has completed last.
NoPass == [done |-> FALSE, partial |-> FALSE, errors |-> 0]

InitButOptions ==
  /\ now = 0
  /\ remote = [id \in Ids |-> 1]
  /\ remoteChanges = 0
  /\ faults = 0
  /\ stored = EmptySyncState
  /\ index = << >>
  /\ artifacts = {}
  /\ bgInProgress = FALSE
  /\ bgPc = "idle"
  /\ bgOptions = NoOptions
  /\ nextState = EmptySyncState
  /\ bgCurrentIds = {}
  /\ fullInventoryMode = FALSE
  /\ checkpointCount = 0
  /\ runCount = 0
  /\ startState = StartOf(EmptySyncState)
  /\ lastPass = NoPass
  /\ lastError = ""
  /\ finishRecorded = TRUE
  /\ reason = ""
  /\ forceMsg = NoForce
  /\ startSync = << >>
  /\ chan = << >>
  /\ csInProgress = FALSE
  /\ csPc = "idle"
  /\ csPortLive = FALSE
  /\ cs = CsIdle
  /\ queue = << >>
  /\ queueWaiters = 0
  /\ busy = {}
  /\ exited = 0
  /\ pageReq = << >>
  /\ orphans = << >>
  /\ delAttempted = {}
  /\ delFailed = {}
  /\ retry = {}
  /\ bar = EmptyBar

\* A cold start with one worker that keeps the files of removed records, on a
\* remote that reports the total of its collection.
Init ==
  /\ InitButOptions
  /\ storedOptions = [deleteRemoved |-> FALSE,
                      maxParallelFetch |-> NumberToString(1)]
  /\ shape = "total"
  /\ quota = "all"
  /\ folderAccessState = "permission"
  /\ syncNow = NoSyncNow

----------------------------------------------------------------------------
(* Environment.                                                            *)

\* One more event outside the plain course.
Fault == faults < MaxFaults /\ faults' = faults + 1

\* A day passes between two runs.
Tick ==
  /\ UNCHANGED <<reason, forceMsg, quota, folderAccessState, syncNow>>
  /\ bgPc = "idle"
  /\ csPc \notin {"listing", "draining"}
  /\ 0 < runCount /\ runCount < MaxRuns
  /\ now < MaxNow
  /\ now' = now + 1
  /\ UNCHANGED <<remote, remoteChanges, faults, storedOptions, shape, stored, index, artifacts>>
  /\ UNCHANGED <<bgVars, portVars, csVars>>

\* A request that reads the remote collection is in flight.
RemoteRead ==
  \/ pageReq # << >>
  \/ \E job \in busy : job.phase = "fetch"
  \/ orphans # << >>

\* A record is edited (its update_time grows), created or deleted remotely;
\* the change is taken when a request is there to see it.
RemoteChange ==
  /\ UNCHANGED <<reason, forceMsg, quota, folderAccessState, syncNow>>
  /\ chan = << >>
  /\ RemoteRead
  /\ remoteChanges < MaxRemoteChanges
  /\ remoteChanges' = remoteChanges + 1
  /\ \E id \in Ids :
       \/ /\ remote[id] # 0
          /\ remote' = [remote EXCEPT ![id] = 0]
       \/ \E t \in 1..MaxTime :
            /\ t > remote[id]
            /\ remote' = [remote EXCEPT ![id] = t]
  /\ UNCHANGED <<now, faults, storedOptions, shape, stored, index, artifacts>>
  /\ UNCHANGED <<bgVars, portVars, csVars>>

----------------------------------------------------------------------------
(* Background service worker: runSync(reason, preferredTabId).             *)

\* getOptions: the stored options, normalized.
getOptions == normalizeOptions(storedOptions)

\* The slim state of setSyncState's catch block, with the cursor lost.
SlimStateNoCursor(state) ==
  [conversations |-> state.conversations,
   meta |-> EmptyMap,
   lastRun |-> EmptyMap,
   lastFullInventoryAt |-> state.lastFullInventoryAt,
   inventoryCursor |-> NoCursor,
   inventoryInProgress |-> state.inventoryInProgress]

\* slim in the catch block of setSyncState: the watermarks, lastFullInventoryAt,
\* the cursor and the flag of state, with meta and lastRun emptied.
SlimState(state) ==
  [conversations |-> state.conversations,
   meta |-> EmptyMap,
   lastRun |-> EmptyMap,
   lastFullInventoryAt |-> state.lastFullInventoryAt,
   inventoryCursor |-> state.inventoryCursor,
   inventoryInProgress |-> state.inventoryInProgress]

\* setSyncState(state): the full state is written; when that write throws the
\* slim state is written; when that write throws too the failure is logged and
\* storage keeps what it had.  The promise resolves in all three cases.
setSyncState(state) ==
  stored' = CASE quota = "all" -> state
              [] quota = "slim" -> SlimState(state)
              [] OTHER -> stored

\* The locals of a background run that is over.
BgLocalsReset ==
  /\ bgOptions' = NoOptions
  /\ nextState' = EmptySyncState
  /\ bgCurrentIds' = {}
  /\ fullInventoryMode' = FALSE
  /\ checkpointCount' = 0

\* alarm or sync-now while no run is active: the guard is taken, getOptions
\* and setStatus are awaited.  The reason is recorded as alarm: sync-now
\* differs in the reason and in the preferred tab only.
BgTrigger ==
  /\ reason' = "alarm"
  /\ UNCHANGED <<forceMsg, quota, folderAccessState, syncNow>>
  /\ ~bgInProgress
  /\ bgPc = "idle"
  /\ runCount < MaxRuns
  /\ bgInProgress' = TRUE
  /\ bgPc' = "starting"
  /\ runCount' = runCount + 1
  /\ lastError' = ""
  /\ finishRecorded' = FALSE
  /\ UNCHANGED <<startState, lastPass>>
  /\ bgOptions' = getOptions
  /\ UNCHANGED <<nextState, bgCurrentIds, fullInventoryMode, checkpointCount>>
  /\ UNCHANGED <<envVars, portVars, csVars>>

\* alarm or sync-now while a run is active: runSync returns at once.
BgTriggerRejected ==
  /\ UNCHANGED <<reason, forceMsg, quota, folderAccessState, syncNow>>
  /\ bgInProgress
  /\ UNCHANGED vars

\* No ChatGPT tab is open: the run ends with lastError.
BgNoTab ==
  /\ UNCHANGED <<reason, forceMsg, quota, folderAccessState, syncNow>>
  /\ bgPc = "starting"
  /\ csPc = "idle"
  /\ Fault
  /\ bgPc' = "idle"
  /\ bgInProgress' = FALSE
  /\ BgLocalsReset
  /\ lastError' = "No ChatGPT tab open"
  /\ finishRecorded' = TRUE
  /\ lastPass' = NoPass
  /\ UNCHANGED <<runCount, startState>>
  /\ UNCHANGED <<now, remote, remoteChanges, storedOptions, shape, stored, index, artifacts>>
  /\ UNCHANGED <<portVars, csVars>>

\* A tab is found: the sync state is read, the port is opened and start-sync
\* is posted.
BgConnect ==
  /\ UNCHANGED <<reason, forceMsg, quota, folderAccessState, syncNow>>
  /\ UNCHANGED finishRecorded
  /\ bgPc = "starting"
  /\ bgPc' = "running"
  /\ nextState' = stored
  /\ bgCurrentIds' = {}
  /\ fullInventoryMode' = FALSE
  /\ checkpointCount' = 0
  /\ startSync' = <<[options |-> bgOptions,
                     knownConversations |-> stored.conversations,
                     knownMeta |-> stored.meta,
                     lastFullInventoryAt |-> stored.lastFullInventoryAt,
                     inventoryCursor |-> stored.inventoryCursor]>>
  /\ chan' = << >>
  /\ csPortLive' = FALSE
  /\ startState' = StartOf(stored)
  /\ UNCHANGED <<lastPass, lastError>>
  /\ UNCHANGED <<bgInProgress, bgOptions, runCount>>
  /\ UNCHANGED <<envVars, csVars>>

\* A variant of the test of maybeCheckpoint that lets the count pass the
\* minimum by one.
CheckpointDueLate(force, count, elapsed) ==
  force \/ count > CheckpointMinMessages \/ elapsed

\* maybeCheckpoint(force) after count messages; elapsed: 15 s have passed.
CheckpointDue(force, count, elapsed) ==
  force \/ count >= CheckpointMinMessages \/ elapsed

\* A handler that changed nextState to ns and counted the message.
BgApply(ns, force) ==
  /\ nextState' = ns
  /\ chan' = Tail(chan)
  /\ \E elapsed \in BOOLEAN :
       LET count == IF force THEN checkpointCount ELSE checkpointCount + 1
       IN IF CheckpointDue(force, count, elapsed)
          THEN /\ checkpointCount' = 0
               /\ setSyncState(ns)
          ELSE /\ checkpointCount' = count
               /\ UNCHANGED stored

\* WithWatermark without Math.max: the message's time overwrites the watermark.
WithWatermarkOverwriting(ns, msg, status) ==
  LET messageTime == toEpochSeconds(msg.update_time)
  IN [ns EXCEPT
        !.conversations = Put(ns.conversations, msg.id, messageTime),
        !.meta = Put(ns.meta, msg.id, messageTime),
        !.lastRun = Put(ns.lastRun, msg.id,
                        [status |-> status, update_time |-> messageTime, error |-> ""])]

\* nextState after a conversation or conversation-skip message
WithWatermark(ns, msg, status) ==
  LET existingTime == Get(ns.conversations, msg.id)
      messageTime == toEpochSeconds(msg.update_time)
      nextTime == Max(existingTime, messageTime)
  IN [ns EXCEPT
        !.conversations = Put(ns.conversations, msg.id, nextTime),
        !.meta = Put(ns.meta, msg.id, nextTime),
        !.lastRun = Put(ns.lastRun, msg.id,
                        [status |-> status, update_time |-> nextTime, error |-> ""])]

\* WithError that also enters the id in conversations, as the handlers of
\* conversation and conversation-skip do.
WithErrorAdvancing(ns, msg) ==
  [ns EXCEPT
     !.conversations = Put(ns.conversations, msg.id, Get(ns.conversations, msg.id)),
     !.lastRun = Put(ns.lastRun, msg.id,
                     [status |-> "error",
                      update_time |-> Get(ns.conversations, msg.id),
                      error |-> IF msg.error = "" THEN "Unknown error" ELSE msg.error])]

\* nextState after a conversation-error message
WithError(ns, msg) ==
  [ns EXCEPT
     !.lastRun = Put(ns.lastRun, msg.id,
                     [status |-> "error",
                      update_time |-> Get(ns.conversations, msg.id),
                      error |-> IF msg.error = "" THEN "Unknown error" ELSE msg.error])]

BgReceives(type) ==
  /\ bgPc = "running"
  /\ chan # << >>
  /\ Head(chan).type = type

BgOnProgress ==
  /\ UNCHANGED <<reason, forceMsg, quota, folderAccessState, syncNow>>
  /\ UNCHANGED finishRecorded
  /\ BgReceives("sync-progress")
  /\ IF fullInventoryMode
     THEN BgApply([nextState EXCEPT
                     !.inventoryCursor = <<[offset |-> Head(chan).cursor.offset,
                                            limit |-> Head(chan).cursor.limit,
                                            updatedAt |-> now]>>,
                     !.inventoryInProgress = TRUE], FALSE)
     ELSE /\ chan' = Tail(chan)
          /\ UNCHANGED <<nextState, checkpointCount, stored>>
  /\ UNCHANGED <<bgInProgress, bgPc, bgOptions, bgCurrentIds, fullInventoryMode, runCount, startState, lastPass, lastError>>
  /\ UNCHANGED <<now, remote, remoteChanges, faults, storedOptions, shape, index, artifacts>>
  /\ UNCHANGED <<startSync, csPortLive, csVars>>

BgOnConversation ==
  /\ UNCHANGED <<reason, forceMsg, quota, folderAccessState, syncNow>>
  /\ UNCHANGED finishRecorded
  /\ BgReceives("conversation")
  /\ bgCurrentIds' = bgCurrentIds \cup {Head(chan).id}
  /\ BgApply(WithWatermark(nextState, Head(chan), "updated"), FALSE)
  /\ UNCHANGED <<bgInProgress, bgPc, bgOptions, fullInventoryMode, runCount, startState, lastPass, lastError>>
  /\ UNCHANGED <<now, remote, remoteChanges, faults, storedOptions, shape, index, artifacts>>
  /\ UNCHANGED <<startSync, csPortLive, csVars>>

BgOnSkip ==
  /\ UNCHANGED <<reason, forceMsg, quota, folderAccessState, syncNow>>
  /\ UNCHANGED finishRecorded
  /\ BgReceives("conversation-skip")
  /\ bgCurrentIds' = bgCurrentIds \cup {Head(chan).id}
  /\ BgApply(WithWatermark(nextState, Head(chan), "unchanged"), FALSE)
  /\ UNCHANGED <<bgInProgress, bgPc, bgOptions, fullInventoryMode, runCount, startState, lastPass, lastError>>
  /\ UNCHANGED <<now, remote, remoteChanges, faults, storedOptions, shape, index, artifacts>>
  /\ UNCHANGED <<startSync, csPortLive, csVars>>

BgOnError ==
  /\ UNCHANGED <<reason, forceMsg, quota, folderAccessState, syncNow>>
  /\ UNCHANGED finishRecorded
  /\ BgReceives("conversation-error")
  /\ bgCurrentIds' = bgCurrentIds \cup {Head(chan).id}
  /\ BgApply(WithError(nextState, Head(chan)), FALSE)
  /\ UNCHANGED <<bgInProgress, bgPc, bgOptions, fullInventoryMode, runCount, startState, lastPass, lastError>>
  /\ UNCHANGED <<now, remote, remoteChanges, faults, storedOptions, shape, index, artifacts>>
  /\ UNCHANGED <<startSync, csPortLive, csVars>>

BgOnSyncMode ==
  /\ UNCHANGED <<reason, forceMsg, quota, folderAccessState, syncNow>>
  /\ UNCHANGED finishRecorded
  /\ BgReceives("sync-mode")
  /\ fullInventoryMode' = Head(chan).fullInventory
  /\ BgApply(IF Head(chan).fullInventory
             THEN [nextState EXCEPT
                     !.inventoryCursor = <<[offset |-> Head(chan).resumeOffset,
                                            limit |-> Head(chan).limit,
                                            updatedAt |-> now]>>,
                     !.inventoryInProgress = TRUE]
             ELSE [nextState EXCEPT
                     !.inventoryCursor = NoCursor,
                     !.inventoryInProgress = FALSE], TRUE)
  /\ UNCHANGED <<bgInProgress, bgPc, bgOptions, bgCurrentIds, runCount, startState, lastPass, lastError>>
  /\ UNCHANGED <<now, remote, remoteChanges, faults, storedOptions, shape, index, artifacts>>
  /\ UNCHANGED <<startSync, csPortLive, csVars>>

\* The run is over: port.disconnect(), the promise settles, the guard is released.
BgFinish ==
  /\ bgPc' = "idle"
  /\ bgInProgress' = FALSE
  /\ BgLocalsReset
  /\ chan' = << >>
  /\ startSync' = << >>
  /\ csPortLive' = FALSE
  /\ finishRecorded' = TRUE
  /\ UNCHANGED <<runCount, startState>>

\* Completed without the pruning of the ids the run did not observe.
CompletedUnpruned(ns, msg, ids, full) ==
  IF msg.fullInventory
  THEN [ns EXCEPT
          !.lastFullInventoryAt = now,
          !.inventoryCursor = NoCursor,
          !.inventoryInProgress = FALSE]
  ELSE IF full
  THEN [ns EXCEPT !.inventoryInProgress = TRUE]
  ELSE [ns EXCEPT !.inventoryCursor = NoCursor, !.inventoryInProgress = FALSE]

\* A variant of Completed that stamps lastFullInventoryAt at the end of every
\* pass that started as a full inventory.
CompletedStamping(ns, msg, ids, full) ==
  IF msg.fullInventory
  THEN [ns EXCEPT
          !.conversations = Restrict(ns.conversations, ids),
          !.meta = Restrict(ns.meta, ids),
          !.lastRun = Restrict(ns.lastRun, ids),
          !.lastFullInventoryAt = now,
          !.inventoryCursor = NoCursor,
          !.inventoryInProgress = FALSE]
  ELSE IF full
  THEN [ns EXCEPT !.lastFullInventoryAt = now, !.inventoryInProgress = TRUE]
  ELSE [ns EXCEPT !.inventoryCursor = NoCursor, !.inventoryInProgress = FALSE]

\* A variant of Completed that leaves the cursor of a completed full pass in
\* place.
CompletedKeepingCursor(ns, msg, ids, full) ==
  IF msg.fullInventory
  THEN [ns EXCEPT
          !.conversations = Restrict(ns.conversations, ids),
          !.meta = Restrict(ns.meta, ids),
          !.lastRun = Restrict(ns.lastRun, ids),
          !.lastFullInventoryAt = now,
          !.inventoryInProgress = FALSE]
  ELSE IF full
  THEN [ns EXCEPT !.inventoryInProgress = TRUE]
  ELSE [ns EXCEPT !.inventoryCursor = NoCursor, !.inventoryInProgress = FALSE]

\* nextState as sync-complete leaves it
Completed(ns, msg, ids, full) ==
  IF msg.fullInventory
  THEN [ns EXCEPT
          !.conversations = Restrict(ns.conversations, ids),
          !.meta = Restrict(ns.meta, ids),
          !.lastRun = Restrict(ns.lastRun, ids),
          !.lastFullInventoryAt = now,
          !.inventoryCursor = NoCursor,
          !.inventoryInProgress = FALSE]
  ELSE IF full
  THEN [ns EXCEPT !.inventoryInProgress = TRUE]
  ELSE [ns EXCEPT !.inventoryCursor = NoCursor, !.inventoryInProgress = FALSE]

BgOnComplete ==
  /\ UNCHANGED <<reason, forceMsg, quota, folderAccessState, syncNow>>
  /\ BgReceives("sync-complete")
  /\ setSyncState(Completed(nextState, Head(chan), bgCurrentIds, fullInventoryMode))
  /\ BgFinish
  /\ lastPass' = [done |-> TRUE, partial |-> ~fullInventoryMode,
                   errors |-> Head(chan).errors]
  /\ UNCHANGED lastError
  /\ UNCHANGED <<now, remote, remoteChanges, faults, storedOptions, shape, index, artifacts>>
  /\ UNCHANGED csVars

\* A variant that passes an empty msg.error on, with no default.
RejectMessageBare(type) == ""

\* The message of the Error a terminal message rejects the run with; the
\* text a sync-error carries is not told apart from the default "Sync error".
RejectMessage(type) ==
  IF type = "sync-requires-folder" THEN "Select a sync folder in the ChatGPT tab."
  ELSE IF type = "sync-permission-required"
  THEN "Folder permission required. Re-grant access in the ChatGPT tab."
  ELSE "Sync error"

\* sync-error, sync-requires-folder, sync-permission-required: the run is
\* rejected and the catch of runSync records lastError.
BgOnSyncError ==
  /\ UNCHANGED <<reason, forceMsg, quota, folderAccessState, syncNow>>
  /\ bgPc = "running"
  /\ chan # << >>
  /\ Head(chan).type \in {"sync-error", "sync-requires-folder", "sync-permission-required"}
  /\ BgFinish
  /\ lastError' = RejectMessage(Head(chan).type)
  /\ lastPass' = NoPass
  /\ UNCHANGED <<envVars, csVars>>

\* The five-minute timer fires: port.disconnect() and the run is rejected.
BgTimeout ==
  /\ UNCHANGED <<reason, forceMsg, quota, folderAccessState, syncNow>>
  /\ bgPc = "running"
  /\ Fault
  /\ BgFinish
  /\ lastError' = "Sync timed out"
  /\ lastPass' = NoPass
  /\ UNCHANGED <<now, remote, remoteChanges, storedOptions, shape, stored, index, artifacts>>
  /\ UNCHANGED csVars

\* port.onDisconnect (the tab went away): the timer is cleared and nextState
\* is saved; the promise of the run never settles.
BgOnDisconnect ==
  /\ UNCHANGED <<reason, forceMsg, quota, folderAccessState, syncNow>>
  /\ UNCHANGED finishRecorded
  /\ BgReceives("disconnect")
  /\ setSyncState(nextState)
  /\ bgPc' = "hung"
  /\ chan' = << >>
  /\ lastPass' = NoPass
  /\ UNCHANGED <<bgInProgress, bgOptions, nextState, bgCurrentIds, fullInventoryMode,
                 checkpointCount, runCount, startState, lastError>>
  /\ UNCHANGED <<now, remote, remoteChanges, faults, storedOptions, shape, index, artifacts>>
  /\ UNCHANGED <<startSync, csPortLive, csVars>>

\* The browser stops the idle service worker; its globals start afresh.
BgWorkerRestart ==
  /\ UNCHANGED <<reason, forceMsg, quota, folderAccessState, syncNow>>
  /\ UNCHANGED finishRecorded
  /\ bgPc = "hung"
  /\ bgPc' = "idle"
  /\ bgInProgress' = FALSE
  /\ BgLocalsReset
  /\ UNCHANGED <<runCount, startState, lastPass, lastError>>
  /\ UNCHANGED <<envVars, portVars, csVars>>

----------------------------------------------------------------------------
(* Content script: runSync(port, options, knownConversations, ...).        *)

\* The content script takes a step when the background has taken the messages
\* posted so far (a message lost in flight is the timeout taken before it).
Delivered == chan = << >>

\* safePost: the message is lost when the port is disconnected.
Post(msgs) == chan' = IF csPortLive THEN chan \o msgs ELSE chan

\* The messages a failing fetch or write can carry as err.message.
ErrMsgs == {"", "Request failed"}

\* A variant of maybeAdvanceCursor that passes over the pages that are not
\* done and reports every page that is.
RECURSIVE maybeAdvanceCursorSkipping(_, _, _)
maybeAdvanceCursorSkipping(forceFullInventory, ps, nci) ==
  IF ~forceFullInventory THEN [nextCursorIndex |-> nci, out |-> << >>]
  ELSE IF nci + 1 \in DOMAIN ps
  THEN LET rest == maybeAdvanceCursorSkipping(forceFullInventory, ps, nci + 1)
       IN [nextCursorIndex |-> rest.nextCursorIndex,
           out |-> (IF ps[nci + 1].done
                    THEN <<[type |-> "sync-progress",
                            cursor |-> [offset |-> ps[nci + 1].nextOffset,
                                        limit |-> ps[nci + 1].limit]]>>
                    ELSE << >>) \o rest.out]
  ELSE [nextCursorIndex |-> nci, out |-> << >>]

\* maybeAdvanceCursor: the cursor reports of the pages that are done, in
\* listing order.  nci is nextCursorIndex, counted from 0.
RECURSIVE maybeAdvanceCursor(_, _, _)
maybeAdvanceCursor(forceFullInventory, ps, nci) ==
  IF ~forceFullInventory THEN [nextCursorIndex |-> nci, out |-> << >>]
  ELSE IF nci + 1 \in DOMAIN ps /\ ps[nci + 1].done
  THEN LET rest == maybeAdvanceCursor(forceFullInventory, ps, nci + 1)
       IN [nextCursorIndex |-> rest.nextCursorIndex,
           out |-> <<[type |-> "sync-progress",
                      cursor |-> [offset |-> ps[nci + 1].nextOffset,
                                  limit |-> ps[nci + 1].limit]]>> \o rest.out]
  ELSE [nextCursorIndex |-> nci, out |-> << >>]

\* markPageItemDone(pageIndex); pages are counted from 1 here.
markPageItemDone(forceFullInventory, ps, nci, pageIndex) ==
  IF pageIndex \notin DOMAIN ps \/ ps[pageIndex].done
  THEN [pageStates |-> ps, nextCursorIndex |-> nci, out |-> << >>]
  ELSE LET remaining == ps[pageIndex].remaining - 1
           ps1 == [ps EXCEPT ![pageIndex].remaining = remaining,
                             ![pageIndex].done = (remaining <= 0)]
       IN IF remaining <= 0
          THEN LET adv == maybeAdvanceCursor(forceFullInventory, ps1, nci)
               IN [pageStates |-> ps1, nextCursorIndex |-> adv.nextCursorIndex,
                   out |-> adv.out]
          ELSE [pageStates |-> ps1, nextCursorIndex |-> nci, out |-> << >>]

\* A variant of the test that takes an item at its known watermark for
\* changed.
isUnchangedStrict(updateTime, knownTime) == updateTime < knownTime

\* if (updateTime <= knownTime): the item is skipped, with no body fetch.
isUnchanged(updateTime, knownTime) == updateTime <= knownTime

\* A variant of enqueueItem that always pushes to the queue.
enqueueItemQueued(acc, job) == [acc EXCEPT !.queue = Append(acc.queue, job)]

\* enqueueItem: the item goes to the worker that has waited longest, or to
\* the queue when none waits.
enqueueItem(acc, job) ==
  IF acc.waiters > 0
  THEN [acc EXCEPT !.waiters = acc.waiters - 1, !.started = acc.started \cup {job}]
  ELSE [acc EXCEPT !.queue = Append(acc.queue, job)]

\* The loop over the items of a page (the for of the listing loop): acc holds
\* metaMap, currentIds, pageStates, nextCursorIndex, the messages posted, the
\* queue, the number of waiting workers, the items handed to waiters and the
\* number of items skipped.
RECURSIVE ClassifyItems(_, _, _, _, _)
ClassifyItems(items, i, pageIndex, c, acc) ==
  IF i > Len(items) THEN acc
  ELSE
    LET item == items[i]
        id == item.id
        updateTime == ObservedTime(item)
        knownTime == Get(c.knownConversations, id)
        existingMetaUpdate == Get(acc.metaMap, id)
        mergedUpdateTime == Max(Max(updateTime, knownTime), existingMetaUpdate)
        metaMap1 == Put(acc.metaMap, id, mergedUpdateTime)
        ids1 == acc.currentIds \cup {id}
        job == [id |-> id, pageIndex |-> pageIndex, updateTime |-> updateTime,
                phase |-> "fetch", metaUpdateTime |-> 0]
    IN IF isUnchanged(updateTime, knownTime)
       THEN LET md == markPageItemDone(c.forceFullInventory, acc.pageStates,
                                       acc.nextCursorIndex, pageIndex)
            IN ClassifyItems(items, i + 1, pageIndex, c,
                 [acc EXCEPT !.metaMap = metaMap1, !.currentIds = ids1,
                             !.pageStates = md.pageStates,
                             !.nextCursorIndex = md.nextCursorIndex,
                             !.skipped = acc.skipped + 1,
                             !.out = acc.out \o
                                     <<[type |-> "conversation-skip", id |-> id,
                                        update_time |-> mergedUpdateTime]>> \o md.out])
       ELSE ClassifyItems(items, i + 1, pageIndex, c,
              [enqueueItem(acc, job) EXCEPT !.metaMap = metaMap1, !.currentIds = ids1])

\* start-sync arrives while a content run is active: the guard answers
\* sync-error on the new port.
CsStartRejected ==
  /\ UNCHANGED <<reason, forceMsg, quota, folderAccessState, syncNow>>
  /\ startSync # << >>
  /\ csInProgress
  /\ startSync' = << >>
  /\ chan' = Append(chan, [type |-> "sync-error"])
  /\ UNCHANGED csPortLive
  /\ UNCHANGED <<envVars, bgVars, csVars>>

\* start-sync arrives, ensureHandle fails: no folder or no permission.
CsStartNoFolder ==
  /\ UNCHANGED <<reason, forceMsg, quota, folderAccessState, syncNow>>
  /\ startSync # << >>
  /\ ~csInProgress
  /\ startSync' = << >>
  /\ \E t \in {"sync-requires-folder", "sync-permission-required"} :
       chan' = Append(chan, [type |-> t])
  /\ Fault
  /\ bar' = updateProgress(0, 0, FALSE)
  /\ UNCHANGED csPortLive
  /\ UNCHANGED <<now, remote, remoteChanges, storedOptions, shape, stored, index, artifacts>>
  /\ UNCHANGED <<csInProgress, csPc, cs, queue, queueWaiters, busy, exited,
                 pageReq, orphans, delAttempted, delFailed, retry>>
  /\ UNCHANGED bgVars

\* start-sync arrives: index.json is merged, the mode is decided and
\* reported, the workers start and the first page is requested.
CsStart ==
  /\ UNCHANGED <<reason, forceMsg, quota, folderAccessState, syncNow>>
  /\ startSync # << >>
  /\ ~csInProgress
  /\ LET msg == startSync[1]
         indexState == readIndex
         merged == mergeKnownState(msg.knownConversations, msg.knownMeta, indexState)
         forceFullInventory ==
           shouldForceFullInventory(msg.options, merged.conversations,
                                    msg.lastFullInventoryAt)
         resumeOffset == IF forceFullInventory
                         THEN getResumeOffset(msg.inventoryCursor) ELSE 0
         parallelLimit == clampParallelFetch(NumberToString(msg.options.maxParallelFetch))
     IN /\ cs' = [CsIdle EXCEPT
                    !.options = [deleteRemoved |-> msg.options.deleteRemoved,
                                 parallelLimit |-> parallelLimit],
                    !.knownConversations = merged.conversations,
                    !.metaMap = merged.meta,
                    !.forceFullInventory = forceFullInventory,
                    !.didFullInventory = forceFullInventory,
                    !.stopAfterTime = IF forceFullInventory THEN NullTime
                                      ELSE getMaxKnownUpdateTime(merged.conversations),
                    !.offset = resumeOffset,
                    !.resumeOffset = resumeOffset,
                    !.limit = PageLimit]
        /\ chan' = Append(chan, [type |-> "sync-mode",
                                 fullInventory |-> forceFullInventory,
                                 resumeOffset |-> resumeOffset,
                                 limit |-> PageLimit])
        /\ queueWaiters' = parallelLimit
        /\ pageReq' = <<[offset |-> resumeOffset, limit |-> PageLimit]>>
  /\ startSync' = << >>
  /\ csPortLive' = TRUE
  /\ csInProgress' = TRUE
  /\ csPc' = "listing"
  /\ queue' = << >>
  /\ busy' = {}
  /\ exited' = 0
  /\ delAttempted' = {}
  /\ delFailed' = {}
  /\ bar' = updateProgress(0, 0, FALSE)
  /\ UNCHANGED <<orphans, retry>>
  /\ UNCHANGED <<envVars, bgVars>>

\* The listing loop is left: listComplete and listingDone are set, the
\* waiting workers are released with null, Promise.all(workers) is awaited.
\* c.listEnd records why the loop was left (history).
EndListing(c, acc) ==
  /\ cs' = [c EXCEPT !.listingDone = TRUE]
  /\ csPc' = "draining"
  /\ pageReq' = << >>
  /\ queue' = acc.queue
  /\ busy' = busy \cup acc.started
  /\ exited' = exited + acc.waiters
  /\ queueWaiters' = 0
  /\ Post(acc.out)

\* The accumulator of a page on which no item was classified.
NoItems(c) ==
  [metaMap |-> c.metaMap, currentIds |-> c.currentIds, pageStates |-> c.pageStates,
   nextCursorIndex |-> c.nextCursorIndex, out |-> << >>, queue |-> queue,
   waiters |-> queueWaiters, started |-> {}, skipped |-> 0]

\* The locals after the items of a page were classified.
Classified(c, acc) ==
  [c EXCEPT !.metaMap = acc.metaMap, !.currentIds = acc.currentIds,
            !.pageStates = acc.pageStates, !.nextCursorIndex = acc.nextCursorIndex,
            !.skippedCount = @ + acc.skipped,
            !.processed = @ + acc.skipped,
            !.target = getProgressTarget(c.processed + acc.skipped,
                                         progressTotal(c), FALSE)]

\* A variant of the ceiling test that lets one page more through.
OverCeilingLate(pageCount) == pageCount > MaxPages + 1

\* The page ceiling is passed: the pass is no full inventory.
OverCeiling(pageCount) == pageCount > MaxPages

\* A variant of stopForTime that stops only below the known maximum.
stopForTimeBelow(stopAfterTime, pageMinUpdate) ==
  /\ stopAfterTime # NullTime
  /\ stopAfterTime # 0
  /\ pageMinUpdate # 0
  /\ pageMinUpdate < stopAfterTime

\* stopAfterTime && page.pageMinUpdate && page.pageMinUpdate <= stopAfterTime
\* (null and 0 are falsy).
stopForTime(stopAfterTime, pageMinUpdate) ==
  /\ stopAfterTime # NullTime
  /\ stopAfterTime # 0
  /\ pageMinUpdate # 0
  /\ pageMinUpdate <= stopAfterTime

\* The items the loop over a page has classified so far, skipped or handed
\* to a worker or to the queue.
ItemsClassified(acc) ==
  acc.skipped + Cardinality(acc.started) + (Len(acc.queue) - Len(queue))

\* A variant of NextOffset that counts pages.
NextOffsetByPage(offset, items) == offset + 1

\* const nextOffset = offset + items.length
NextOffset(offset, items) == offset + Len(items)

\* One turn of the listing loop, for the page fetchConversationPage returned.
\* The next page is requested (nextPagePromise) before the loop over the
\* items; c.unclassifiedAtRequest records how many items of the page were
\* not classified at that point (history).
ListingTurn(page) ==
  LET items == page.items
      c0 == [cs EXCEPT !.limit = page.limit]
  IN IF items = << >>
     THEN /\ EndListing([c0 EXCEPT !.didFullInventory =
                                      IF cs.listedCount = 0 THEN FALSE ELSE @,
                                   !.listEnd =
                                      IF cs.listedCount = 0 THEN "empty-first" ELSE "empty"],
                        NoItems(c0))
          /\ UNCHANGED bar
     ELSE
       LET listed == [c0 EXCEPT !.listedCount = @ + Len(items),
                                !.totalHint = Max(@, page.total)]
           c1 == [listed EXCEPT !.pageCount = @ + 1,
                                !.target = getProgressTarget(cs.processed,
                                                             progressTotal(listed), FALSE)]
           pageIndex == c1.pageCount
       IN IF OverCeiling(c1.pageCount)
          THEN /\ EndListing([c1 EXCEPT !.didFullInventory = FALSE,
                                        !.listEnd = "ceiling"], NoItems(c1))
               /\ bar' = updateProgress(c1.processed, c1.target, FALSE)
          ELSE
            LET nextOffset == NextOffset(cs.offset, items)
                c2 == [c1 EXCEPT !.pageStates =
                                   Append(@, [remaining |-> Len(items),
                                              nextOffset |-> nextOffset,
                                              limit |-> page.limit,
                                              done |-> FALSE])]
                stop == stopForTime(cs.stopAfterTime, page.pageMinUpdate)
                shouldContinue ==
                  ~stop /\ (page.hasMore \/ Len(items) >= page.limit)
                c3 == [c2 EXCEPT !.didFullInventory =
                                   IF stop THEN FALSE ELSE @,
                                 !.unclassifiedAtRequest =
                                   IF shouldContinue
                                   THEN Len(items) - ItemsClassified(NoItems(c2))
                                   ELSE @]
                acc == ClassifyItems(items, 1, pageIndex, c3, NoItems(c3))
                c4 == [Classified(c3, acc) EXCEPT !.offset = nextOffset]
            IN /\ bar' = updateProgress(c4.processed, c4.target, FALSE)
               /\ IF shouldContinue
                  THEN /\ cs' = c4
                       /\ pageReq' = <<[offset |-> nextOffset, limit |-> page.limit]>>
                       /\ queue' = acc.queue
                       /\ busy' = busy \cup acc.started
                       /\ queueWaiters' = acc.waiters
                       /\ Post(acc.out)
                       /\ UNCHANGED <<csPc, exited>>
                  ELSE EndListing([c4 EXCEPT !.listEnd =
                                             IF stop THEN "time" ELSE "last-page"],
                                  acc)

\* A page request is answered, the first k - 1 candidate sizes having failed.
CsPage ==
  /\ UNCHANGED <<reason, forceMsg, quota, folderAccessState, syncNow>>
  /\ Delivered
  /\ csPc = "listing"
  /\ pageReq # << >>
  /\ \E k \in 1..Len(PageLimits(pageReq[1].limit)) :
       /\ IF k > 1 THEN Fault ELSE UNCHANGED faults
       /\ ListingTurn(PageResult(remote, pageReq[1].offset,
                                 PageLimits(pageReq[1].limit)[k], shape))
  /\ UNCHANGED <<csInProgress, orphans, delAttempted, delFailed, retry>>
  /\ UNCHANGED <<now, remote, remoteChanges, storedOptions, shape, stored, index, artifacts>>
  /\ UNCHANGED <<bgVars, startSync, csPortLive>>

\* The workers a failed run leaves behind, when they still have work.
Orphaned == IF queue = << >> /\ busy = {} THEN << >>
            ELSE <<[queue |-> queue, busy |-> busy,
                    processed |-> cs.processed, total |-> progressTotal(cs)]>>

\* A page request fails for every candidate size: fetchConversationPage
\* throws, the run posts sync-error and clears its flag.  Its workers stay.
CsPageFail ==
  /\ UNCHANGED <<reason, forceMsg, quota, folderAccessState, syncNow>>
  /\ Delivered
  /\ csPc = "listing"
  /\ pageReq # << >>
  /\ Len(orphans \o Orphaned) <= MaxOrphans
  /\ Fault
  /\ orphans' = orphans \o Orphaned
  /\ Post(<<[type |-> "sync-error"]>>)
  /\ csPc' = "failed"
  /\ csInProgress' = FALSE
  /\ pageReq' = << >>
  /\ queue' = << >>
  /\ busy' = {}
  /\ queueWaiters' = 0
  /\ bar' \in applyGlobalStatus(bar, [processed |-> cs.processed, total |-> cs.target])
  /\ UNCHANGED <<cs, exited, delAttempted, delFailed, retry>>
  /\ UNCHANGED <<now, remote, remoteChanges, storedOptions, shape, stored, index, artifacts>>
  /\ UNCHANGED <<bgVars, startSync, csPortLive>>

\* A variant of the worker loop whose dequeueItem tests listingDone before
\* the queue: a worker returns on a closed queue that still holds items.
WorkerNextClosedFirst(c, job, out) ==
  LET md == markPageItemDone(c.forceFullInventory, c.pageStates,
                             c.nextCursorIndex, job.pageIndex)
      target == getProgressTarget(c.processed + 1, progressTotal(c), c.listingDone)
  IN /\ cs' = [c EXCEPT !.pageStates = md.pageStates,
                        !.nextCursorIndex = md.nextCursorIndex,
                        !.processed = @ + 1,
                        !.target = target]
     /\ bar' = updateProgress(c.processed + 1, target, c.listingDone)
     /\ Post(out \o md.out)
     /\ IF c.listingDone
        THEN /\ busy' = busy \ {job}
             /\ exited' = exited + 1
             /\ UNCHANGED <<queue, queueWaiters>>
        ELSE IF queue # << >>
        THEN /\ busy' = (busy \ {job}) \cup {Head(queue)}
             /\ queue' = Tail(queue)
             /\ UNCHANGED <<queueWaiters, exited>>
        ELSE /\ busy' = busy \ {job}
             /\ queueWaiters' = queueWaiters + 1
             /\ UNCHANGED <<queue, exited>>

\* The end of processItem (finally) and the next turn of the worker loop:
\* dequeueItem gives the next item of the queue, null when the queue is
\* empty and closed, and lets the worker wait otherwise.
WorkerNext(c, job, out) ==
  LET md == markPageItemDone(c.forceFullInventory, c.pageStates,
                             c.nextCursorIndex, job.pageIndex)
      target == getProgressTarget(c.processed + 1, progressTotal(c), c.listingDone)
  IN /\ cs' = [c EXCEPT !.pageStates = md.pageStates,
                        !.nextCursorIndex = md.nextCursorIndex,
                        !.processed = @ + 1,
                        !.target = target]
     /\ bar' = updateProgress(c.processed + 1, target, c.listingDone)
     /\ Post(out \o md.out)
     /\ IF queue # << >>
        THEN /\ busy' = (busy \ {job}) \cup {Head(queue)}
             /\ queue' = Tail(queue)
             /\ UNCHANGED <<queueWaiters, exited>>
        ELSE IF c.listingDone
        THEN /\ busy' = busy \ {job}
             /\ exited' = exited + 1
             /\ UNCHANGED <<queue, queueWaiters>>
        ELSE /\ busy' = busy \ {job}
             /\ queueWaiters' = queueWaiters + 1
             /\ UNCHANGED <<queue, exited>>

CsRunning == csPc \in {"listing", "draining"}

\* fetchConversation answers: metaMap takes max(listing time, body time) and
\* writeConversation starts.
WorkerFetchOk ==
  /\ UNCHANGED <<reason, forceMsg, quota, folderAccessState, syncNow>>
  /\ Delivered
  /\ CsRunning
  /\ \E job \in busy, conversationUpdate \in 0..MaxTime :
       /\ job.phase = "fetch"
       /\ remote[job.id] # 0
       /\ IF conversationUpdate # toEpochSeconds(remote[job.id])
          THEN Fault ELSE UNCHANGED faults
       /\ LET metaUpdateTime == Max(job.updateTime, toEpochSeconds(conversationUpdate))
          IN /\ cs' = [cs EXCEPT !.metaMap = Put(@, job.id, metaUpdateTime)]
             /\ busy' = (busy \ {job}) \cup
                        {[job EXCEPT !.phase = "write", !.metaUpdateTime = metaUpdateTime]}
  /\ UNCHANGED <<csInProgress, csPc, queue, queueWaiters, exited, pageReq, orphans,
                 delAttempted, delFailed, retry, bar>>
  /\ UNCHANGED <<now, remote, remoteChanges, storedOptions, shape, stored, index, artifacts>>
  /\ UNCHANGED <<bgVars, portVars>>

\* A variant of the catch of processItem that does not count the error.
ItemFailedUncounted(c, job) ==
  [c EXCEPT !.failedFetches =
              IF job.phase = "fetch"
              THEN @ \cup {[id |-> job.id, updateTime |-> job.updateTime]}
              ELSE @]

\* The catch of processItem: errorCount += 1.  failedFetches records the
\* fetches that failed (history).
ItemFailed(c, job) ==
  [c EXCEPT !.errorCount = @ + 1,
            !.failedFetches =
              IF job.phase = "fetch"
              THEN @ \cup {[id |-> job.id, updateTime |-> job.updateTime]}
              ELSE @]

\* fetchConversation or writeConversation throws: conversation-error.  The
\* fetch of a record that is gone remotely fails of itself.
WorkerFail ==
  /\ UNCHANGED <<reason, forceMsg, quota, folderAccessState, syncNow>>
  /\ Delivered
  /\ CsRunning
  /\ \E job \in busy, err \in ErrMsgs :
       /\ IF job.phase = "fetch" /\ remote[job.id] = 0
          THEN UNCHANGED faults ELSE Fault
       /\ WorkerNext(ItemFailed(cs, job), job,
                     <<[type |-> "conversation-error", id |-> job.id, error |-> err]>>)
  /\ UNCHANGED <<csInProgress, csPc, pageReq, orphans, delAttempted, delFailed, retry>>
  /\ UNCHANGED <<now, remote, remoteChanges, storedOptions, shape, stored, index, artifacts>>
  /\ UNCHANGED <<bgVars, startSync, csPortLive>>

\* writeConversation is done: conversation is posted.
WorkerWriteOk ==
  /\ UNCHANGED <<reason, forceMsg, quota, folderAccessState, syncNow>>
  /\ Delivered
  /\ CsRunning
  /\ \E job \in busy :
       /\ job.phase = "write"
       /\ artifacts' = artifacts \cup {job.id}
       /\ WorkerNext([cs EXCEPT !.updatedCount = @ + 1], job,
                     <<[type |-> "conversation", id |-> job.id,
                        update_time |-> job.metaUpdateTime]>>)
  /\ UNCHANGED <<csInProgress, csPc, pageReq, orphans, delAttempted, delFailed, retry>>
  /\ UNCHANGED <<now, remote, remoteChanges, faults, storedOptions, shape, stored, index>>
  /\ UNCHANGED <<bgVars, startSync, csPortLive>>

\* Removed without the didFullInventory gate.
RemovedUngated(c) == (DOMAIN c.metaMap) \ c.currentIds

\* The ids the removal step drops from metaMap.
Removed(c) == IF c.didFullInventory THEN (DOMAIN c.metaMap) \ c.currentIds ELSE {}

\* ToDelete without the deleteRemoved option.
ToDeleteAlways(c, removed) == removed

\* The ids among them deleteConversation is called for.
ToDelete(c, removed) == IF c.options.deleteRemoved THEN removed ELSE {}

\* finalTotal = didFullInventory ? progressTotal() || processed : processed
FinalTotal(c) ==
  IF c.didFullInventory
  THEN (IF progressTotal(c) # 0 THEN progressTotal(c) ELSE c.processed)
  ELSE c.processed

\* await Promise.all(workers): every worker of the pool has returned.
AllWorkersReturned == exited = cs.options.parallelLimit

\* Every worker returned: the removal step, writeIndex and sync-complete.
\* failed: the ids whose deleteConversation throws.
CsFinalize ==
  /\ UNCHANGED <<reason, forceMsg, quota, folderAccessState, syncNow>>
  /\ Delivered
  /\ csPc = "draining"
  /\ AllWorkersReturned
  /\ LET removed == Removed(cs)
         toDelete == ToDelete(cs, removed)
         metaMap1 == Restrict(cs.metaMap, (DOMAIN cs.metaMap) \ removed)
         finalTotal == FinalTotal(cs)
     IN \E failed \in SUBSET toDelete :
          /\ IF failed # {} THEN Fault ELSE UNCHANGED faults
          /\ delAttempted' = toDelete
          /\ delFailed' = failed
          /\ retry' = cs.failedFetches
          /\ artifacts' = artifacts \ (toDelete \ failed)
          /\ cs' = [cs EXCEPT !.metaMap = metaMap1,
                              !.errorCount = @ + Cardinality(failed),
                              !.target = finalTotal]
          /\ index' = <<metaMap1>>
          /\ bar' \in applyGlobalStatus(updateProgress(finalTotal, finalTotal, TRUE),
                                        [processed |-> cs.processed, total |-> cs.target])
          /\ Post(<<[type |-> "sync-complete",
                     total |-> finalTotal,
                     fullInventory |-> cs.didFullInventory,
                     errors |-> cs.errorCount + Cardinality(failed)]>>)
  /\ csPc' = "complete"
  /\ csInProgress' = FALSE
  /\ UNCHANGED <<queue, queueWaiters, busy, exited, pageReq, orphans>>
  /\ UNCHANGED <<now, remote, remoteChanges, storedOptions, shape, stored>>
  /\ UNCHANGED <<bgVars, startSync, csPortLive>>

\* A worker of a failed run ends its fetch and write (wrote: the files were
\* written) and takes the next item of its queue; its posts are lost.
OrphanStep ==
  /\ UNCHANGED <<reason, forceMsg, quota, folderAccessState, syncNow>>
  /\ Delivered
  /\ \E i \in 1..Len(orphans) :
    \E job \in orphans[i].busy, wrote \in BOOLEAN :
      /\ wrote => remote[job.id] # 0
      /\ artifacts' = IF wrote THEN artifacts \cup {job.id} ELSE artifacts
      /\ LET o == orphans[i]
             o1 == IF o.queue # << >>
                   THEN [o EXCEPT !.queue = Tail(o.queue),
                                  !.busy = (o.busy \ {job}) \cup {Head(o.queue)},
                                  !.processed = @ + 1]
                   ELSE [o EXCEPT !.busy = o.busy \ {job}, !.processed = @ + 1]
         IN /\ orphans' = IF o1.busy = {}
                          THEN SubSeq(orphans, 1, i - 1) \o
                               SubSeq(orphans, i + 1, Len(orphans))
                          ELSE [orphans EXCEPT ![i] = o1]
            /\ bar' = updateProgress(o1.processed,
                                     getProgressTarget(o1.processed, o.total, FALSE),
                                     FALSE)
      /\ UNCHANGED <<csInProgress, csPc, cs, queue, queueWaiters, busy, exited, pageReq,
                     delAttempted, delFailed, retry>>
      /\ UNCHANGED <<now, remote, remoteChanges, faults, storedOptions, shape, stored, index>>
      /\ UNCHANGED <<bgVars, portVars>>

\* The tab is closed or reloaded: the content script and all it was doing
\* are gone; the background sees its port disconnect.
CsTabClosed ==
  /\ UNCHANGED <<reason, forceMsg, quota, folderAccessState, syncNow>>
  /\ Delivered
  /\ Fault
  /\ CsRunning \/ orphans # << >> \/ startSync # << >>
  /\ chan' = IF bgPc = "running" THEN Append(chan, [type |-> "disconnect"]) ELSE chan
  /\ startSync' = << >>
  /\ csPortLive' = FALSE
  /\ csInProgress' = FALSE
  /\ csPc' = "idle"
  /\ cs' = CsIdle
  /\ queue' = << >>
  /\ queueWaiters' = 0
  /\ busy' = {}
  /\ exited' = 0
  /\ pageReq' = << >>
  /\ orphans' = << >>
  /\ delAttempted' = {}
  /\ delFailed' = {}
  /\ bar' = EmptyBar
  /\ UNCHANGED retry
  /\ UNCHANGED <<now, remote, remoteChanges, storedOptions, shape, stored, index, artifacts>>
  /\ UNCHANGED bgVars

----------------------------------------------------------------------------
(* Background: the force-full-inventory message of the options page.        *)

\* A variant of the reset that keeps lastFullInventoryAt.
ForceResetKeeping(current) ==
  [current EXCEPT !.inventoryCursor = NoCursor, !.inventoryInProgress = FALSE]

\* next = {...current, lastFullInventoryAt: null, inventoryCursor: null,
\*         inventoryInProgress: false}
ForceReset(current) ==
  [current EXCEPT !.lastFullInventoryAt = NullTime,
                  !.inventoryCursor = NoCursor,
                  !.inventoryInProgress = FALSE]

\* The message arrives: with a run active it is answered with an error,
\* otherwise getSyncState is awaited.  One message is handled in a behaviour.
ForceReceive ==
  /\ forceMsg = NoForce
  /\ forceMsg' = IF bgInProgress
              THEN [forceMsg EXCEPT !.response = "Sync already in progress."]
              ELSE [forceMsg EXCEPT !.pc = "getSyncState", !.runs = runCount]
  /\ UNCHANGED <<envVars, bgVars, portVars, csVars, reason, quota, folderAccessState, syncNow>>

\* getSyncState answers.
ForceGetSyncState ==
  /\ forceMsg.pc = "getSyncState"
  /\ forceMsg' = [forceMsg EXCEPT !.pc = "setSyncState", !.current = stored]
  /\ UNCHANGED <<envVars, bgVars, portVars, csVars, reason, quota, folderAccessState, syncNow>>

\* The handler goes on: next is built and setSyncState(next) is awaited.
ForceSetSyncState ==
  /\ forceMsg.pc = "setSyncState"
  /\ setSyncState(ForceReset(forceMsg.current))
  /\ forceMsg' = [forceMsg EXCEPT !.pc = "runSync", !.current = EmptySyncState]
  /\ UNCHANGED <<now, remote, remoteChanges, faults, storedOptions, shape, index, artifacts>>
  /\ UNCHANGED <<bgVars, portVars, csVars, reason, quota, folderAccessState, syncNow>>

\* The handler goes on: runSync("manual-full-inventory") takes the guard or
\* returns at once, and sendResponse({ok: true}) follows either way.
ForceRunSync ==
  /\ forceMsg.pc = "runSync"
  /\ forceMsg' = [forceMsg EXCEPT !.pc = "idle", !.response = "ok"]
  /\ IF bgInProgress
     THEN UNCHANGED <<bgVars, reason>>
     ELSE /\ runCount < MaxRuns
          /\ bgInProgress' = TRUE
          /\ bgPc' = "starting"
          /\ runCount' = runCount + 1
          /\ lastError' = ""
          /\ bgOptions' = getOptions
          /\ reason' = "manual-full-inventory"
          /\ finishRecorded' = FALSE
          /\ UNCHANGED <<startState, lastPass, nextState, bgCurrentIds,
                         fullInventoryMode, checkpointCount>>
  /\ UNCHANGED <<envVars, portVars, csVars, quota, folderAccessState, syncNow>>

----------------------------------------------------------------------------

Next ==
  \/ Tick
  \/ RemoteChange
  \/ BgTrigger
  \/ BgTriggerRejected
  \/ BgNoTab
  \/ BgConnect
  \/ BgOnProgress
  \/ BgOnConversation
  \/ BgOnSkip
  \/ BgOnError
  \/ BgOnSyncMode
  \/ BgOnComplete
  \/ BgOnSyncError
  \/ BgTimeout
  \/ BgOnDisconnect
  \/ BgWorkerRestart
  \/ CsStartRejected
  \/ CsStartNoFolder
  \/ CsStart
  \/ CsPage
  \/ CsPageFail
  \/ WorkerFetchOk
  \/ WorkerFail
  \/ WorkerWriteOk
  \/ CsFinalize
  \/ OrphanStep
  \/ CsTabClosed

Spec == Init /\ [][Next]_vars

\* A cold start with one worker that deletes the files of removed records.
InitDelete ==
  /\ InitButOptions
  /\ storedOptions = [deleteRemoved |-> TRUE,
                      maxParallelFetch |-> NumberToString(1)]
  /\ shape = "total"
  /\ quota = "all"
  /\ folderAccessState = "permission"
  /\ syncNow = NoSyncNow

SpecDelete == InitDelete /\ [][Next]_vars

----------------------------------------------------------------------------
(* The engine started on a folder and a sync state that earlier runs left. *)

\* The sync state after a completed full inventory that found known, with
\* lastFull as its stored lastFullInventoryAt.
SyncedState(known, lastFull) ==
  [conversations |-> known, meta |-> known,
   lastRun |-> [id \in DOMAIN known |->
                  [status |-> "updated", update_time |-> known[id], error |-> ""]],
   lastFullInventoryAt |-> lastFull, inventoryCursor |-> NoCursor,
   inventoryInProgress |-> FALSE]

\* The first record synced at its watermark, and a newer second record, on a
\* remote of two records.
ScenarioAB ==
  [remote |-> [id \in Ids |-> IF id = IdOrder[1] THEN 1
                              ELSE IF id = IdOrder[2] THEN 2 ELSE 0],
   known |-> [id \in {IdOrder[1]} |-> 1], lastFull |-> 0]

\* What earlier runs left: everything synced; only the last record synced
\* (the others were pruned or never fetched); the first record synced and a
\* newer second record on a remote of two records; everything synced and a
\* lastFullInventoryAt that is no date; a full inventory that found nothing,
\* of a remote that has records now.
WarmCases ==
  {[remote |-> [id \in Ids |-> 1], known |-> [id \in Ids |-> 1], lastFull |-> 0],
   [remote |-> [id \in Ids |-> 1], known |-> [id \in {IdOrder[Len(IdOrder)]} |-> 1],
    lastFull |-> 0],
   ScenarioAB,
   [remote |-> [id \in Ids |-> 1], known |-> [id \in Ids |-> 1],
    lastFull |-> UnparseableTime],
   [remote |-> [id \in Ids |-> 1], known |-> EmptyMap, lastFull |-> 0]}

InitAfter(cases) ==
  /\ folderAccessState = "permission"
  /\ syncNow = NoSyncNow
  /\ now = 0
  /\ \E w \in cases :
       /\ remote = w.remote
       /\ stored = SyncedState(w.known, w.lastFull)
       /\ index = <<w.known>>
       /\ artifacts = DOMAIN w.known
  /\ remoteChanges = 0
  /\ faults = 0
  /\ storedOptions \in [deleteRemoved : BOOLEAN,
                        maxParallelFetch : {NumberToString(n) : n \in 1..MaxParallel}]
  /\ shape \in RemoteShapes
  /\ bgInProgress = FALSE
  /\ bgPc = "idle"
  /\ bgOptions = NoOptions
  /\ nextState = EmptySyncState
  /\ bgCurrentIds = {}
  /\ fullInventoryMode = FALSE
  /\ checkpointCount = 0
  /\ runCount = 0
  /\ startState = StartOf(EmptySyncState)
  /\ lastPass = NoPass
  /\ lastError = ""
  /\ finishRecorded = TRUE
  /\ reason = ""
  /\ forceMsg = NoForce
  /\ startSync = << >>
  /\ chan = << >>
  /\ csInProgress = FALSE
  /\ csPc = "idle"
  /\ csPortLive = FALSE
  /\ cs = CsIdle
  /\ queue = << >>
  /\ queueWaiters = 0
  /\ busy = {}
  /\ exited = 0
  /\ pageReq = << >>
  /\ orphans = << >>
  /\ delAttempted = {}
  /\ delFailed = {}
  /\ retry = {}
  /\ bar = EmptyBar

\* What earlier runs left, with one worker; the files of removed records are
\* deleted on the folder that is synced in full and kept on the others.
InitWarm ==
  /\ InitAfter(WarmCases)
  /\ quota = "all"
  /\ storedOptions.maxParallelFetch = NumberToString(1)
  /\ shape = "total"
  /\ storedOptions.deleteRemoved => stored = SyncedState([id \in Ids |-> 1], 0)

SpecWarm == InitWarm /\ [][Next]_vars

----------------------------------------------------------------------------
(* The engine with the force-full-inventory message, started on a folder   *)
(* that is synced and on a full inventory that is recent.                   *)

InitForce ==
  /\ InitWarm
  /\ remote = [id \in Ids |-> 1]
  /\ stored = SyncedState([id \in Ids |-> 1], 0)
  /\ storedOptions = [deleteRemoved |-> FALSE, maxParallelFetch |-> NumberToString(1)]
  /\ shape = "total"

NextForce ==
  \/ Next
  \/ ForceReceive
  \/ ForceGetSyncState
  \/ ForceSetSyncState
  \/ ForceRunSync

SpecForce == InitForce /\ [][NextForce]_vars

----------------------------------------------------------------------------
(* The options: what the storage or an update-options message may hold for *)
(* maxParallelFetch, and the run up to the start of the workers.            *)

\* String(undefined)
UndefinedText == <<"u", "n", "d", "e", "f", "i", "n", "e", "d">>

\* Texts of maxParallelFetch with the number of workers Number.parseInt and
\* the clamp to [1, 10] give for each, 3 when the text starts with no integer.
RawCases ==
  {[text |-> << >>, workers |-> 3],
   [text |-> UndefinedText, workers |-> 3],
   [text |-> <<"x">>, workers |-> 3],
   [text |-> <<"-">>, workers |-> 3],
   [text |-> <<"N", "a", "N">>, workers |-> 3],
   [text |-> <<"0">>, workers |-> 1],
   [text |-> <<"-", "5">>, workers |-> 1],
   [text |-> <<"0", ".", "9">>, workers |-> 1],
   [text |-> <<"2", ".", "5">>, workers |-> 2],
   [text |-> <<"4", "x">>, workers |-> 4],
   [text |-> <<" ", "7">>, workers |-> 7],
   [text |-> <<"+", "8">>, workers |-> 8],
   [text |-> <<"1", "1">>, workers |-> 10],
   [text |-> <<"9", "9">>, workers |-> 10]}
    \cup {[text |-> NumberToString(n), workers |-> n] : n \in 1..10}

RawValues == {c.text : c \in RawCases}

\* update-options: the options of the message are normalized and stored.
UpdateOptions ==
  /\ \E options \in [deleteRemoved : BOOLEAN, maxParallelFetch : RawValues] :
       LET normalized == normalizeOptions(options)
       IN storedOptions' = [deleteRemoved |-> normalized.deleteRemoved,
                            maxParallelFetch |-> NumberToString(normalized.maxParallelFetch)]
  /\ UNCHANGED <<now, remote, remoteChanges, faults, shape, stored, index, artifacts>>
  /\ UNCHANGED <<bgVars, portVars, csVars, forceVars, quota, folderAccessState, syncNow>>

InitClamp ==
  /\ quota = "all"
  /\ folderAccessState = "permission"
  /\ syncNow = NoSyncNow
  /\ InitButOptions
  /\ storedOptions \in [deleteRemoved : BOOLEAN, maxParallelFetch : RawValues]
  /\ shape = "total"

NextClamp ==
  \/ UpdateOptions
  \/ BgTrigger
  \/ BgTriggerRejected
  \/ BgConnect
  \/ CsStart

SpecClamp == InitClamp /\ [][NextClamp]_vars

----------------------------------------------------------------------------
(* The engine on a remote that reports a record without update_time, and   *)
(* on a sync state whose full inventory has never completed.                *)

\* The update_time of a record the remote reports none for.
MissingTime == NullTime

\* The second record has no update_time; the last record is synced, and in
\* the second case the second record as well, at its create_time.
SparseCases ==
  {[known |-> [id \in {IdOrder[3]} |-> 1]],
   [known |-> [id \in {IdOrder[2], IdOrder[3]} |-> 1]]}

InitSparse ==
  /\ quota = "all"
  /\ folderAccessState = "permission"
  /\ syncNow = NoSyncNow
  /\ now = 0
  /\ remote = [id \in Ids |-> IF id = IdOrder[1] THEN 2
                              ELSE IF id = IdOrder[2] THEN MissingTime ELSE 1]
  /\ \E w \in SparseCases :
       /\ stored = SyncedState(w.known, NullTime)
       /\ index = <<w.known>>
       /\ artifacts = DOMAIN w.known
  /\ remoteChanges = 0
  /\ faults = 0
  /\ storedOptions = [deleteRemoved |-> FALSE, maxParallelFetch |-> NumberToString(1)]
  /\ shape = "total"
  /\ bgInProgress = FALSE
  /\ bgPc = "idle"
  /\ bgOptions = NoOptions
  /\ nextState = EmptySyncState
  /\ bgCurrentIds = {}
  /\ fullInventoryMode = FALSE
  /\ checkpointCount = 0
  /\ runCount = 0
  /\ startState = StartOf(EmptySyncState)
  /\ lastPass = NoPass
  /\ lastError = ""
  /\ finishRecorded = TRUE
  /\ reason = ""
  /\ forceMsg = NoForce
  /\ startSync = << >>
  /\ chan = << >>
  /\ csInProgress = FALSE
  /\ csPc = "idle"
  /\ csPortLive = FALSE
  /\ cs = CsIdle
  /\ queue = << >>
  /\ queueWaiters = 0
  /\ busy = {}
  /\ exited = 0
  /\ pageReq = << >>
  /\ orphans = << >>
  /\ delAttempted = {}
  /\ delFailed = {}
  /\ retry = {}
  /\ bar = EmptyBar

SpecSparse == InitSparse /\ [][Next]_vars

----------------------------------------------------------------------------
(* The engine on a remote whose listing answers carry has_more.            *)

InitHasMore ==
  /\ quota = "all"
  /\ folderAccessState = "permission"
  /\ syncNow = NoSyncNow
  /\ InitButOptions
  /\ storedOptions = [deleteRemoved |-> FALSE,
                      maxParallelFetch |-> NumberToString(1)]
  /\ shape = "has_more"

SpecHasMore == InitHasMore /\ [][Next]_vars

----------------------------------------------------------------------------
(* The engine under the scheduling of the event loop: a message that has   *)
(* arrived at the background is handled, a body fetch or a file write that *)
(* a worker awaits ends, with a result or with an error, and the content   *)
(* run goes on when all its workers have returned.                         *)

\* The background handles the message at the head of the port.
BgHandles ==
  \/ BgOnProgress
  \/ BgOnConversation
  \/ BgOnSkip
  \/ BgOnError
  \/ BgOnSyncMode
  \/ BgOnComplete
  \/ BgOnSyncError
  \/ BgOnDisconnect

\* The promise a worker awaits settles.
WorkerSettles ==
  \/ WorkerFetchOk
  \/ WorkerFail
  \/ WorkerWriteOk

\* A cold start on a storage that cannot take what the run writes: the full
\* state is refused and the slim one taken, or both are refused.
InitStore ==
  /\ InitButOptions
  /\ storedOptions = [deleteRemoved |-> FALSE,
                      maxParallelFetch |-> NumberToString(1)]
  /\ shape = "total"
  /\ quota \in {"slim", "none"}
  /\ folderAccessState = "permission"
  /\ syncNow = NoSyncNow

SpecStore == InitStore /\ [][Next]_vars

\* The sync-now message of the widget: runSync("manual", preferredTabId) takes
\* the guard or returns at once, and sendResponse({ok: true}) follows either
\* way.
SyncNow ==
  /\ syncNow' = [rejected |-> bgInProgress, response |-> "ok"]
  /\ IF bgInProgress
     THEN UNCHANGED <<bgVars, reason>>
     ELSE /\ runCount < MaxRuns
          /\ bgInProgress' = TRUE
          /\ bgPc' = "starting"
          /\ runCount' = runCount + 1
          /\ lastError' = ""
          /\ bgOptions' = getOptions
          /\ reason' = "manual"
          /\ finishRecorded' = FALSE
          /\ UNCHANGED <<startState, lastPass, nextState, bgCurrentIds,
                         fullInventoryMode, checkpointCount>>
  /\ UNCHANGED <<envVars, portVars, csVars, forceMsg, quota, folderAccessState>>

NextManual ==
  \/ Next
  \/ SyncNow

\* A synced folder with the widget's sync button in use.
SpecManual == InitForce /\ [][NextManual]_vars

\* A cold start in a tab that found the folder accessible when it loaded, so
\* that the end of a run shows the cached status in the bar.
InitProgress ==
  /\ InitButOptions
  /\ storedOptions = [deleteRemoved |-> FALSE,
                      maxParallelFetch |-> NumberToString(1)]
  /\ shape \in RemoteShapes
  /\ quota = "all"
  /\ folderAccessState = "ok"
  /\ syncNow = NoSyncNow

SpecProgress == InitProgress /\ [][Next]_vars

\* A cold start with a pool of MaxParallel workers.
InitPool ==
  /\ InitButOptions
  /\ storedOptions = [deleteRemoved |-> FALSE,
                      maxParallelFetch |-> NumberToString(MaxParallel)]
  /\ shape = "total"
  /\ quota = "all"
  /\ folderAccessState = "permission"
  /\ syncNow = NoSyncNow

SpecPool ==
  /\ InitPool
  /\ [][Next]_vars
  /\ WF_vars(BgHandles)
  /\ WF_vars(WorkerSettles)
  /\ WF_vars(CsFinalize)

\* The content script takes the start-sync message that reached it, and ends
\* the run when its workers have returned.
CsProceeds ==
  \/ CsStartRejected
  \/ CsStartNoFolder
  \/ CsStart
  \/ CsFinalize

\* A cold start with one worker. What the code has scheduled happens: the
\* background connects and handles the messages of its port, the five minute
\* timer fires unless it was cleared, the content script starts and ends its
\* run, and the workers, those failed runs left behind too, go on. The
\* alarm, the closing of the tab and the browser stopping the service worker
\* are up to the environment.
InitGuard ==
  /\ InitButOptions
  /\ storedOptions = [deleteRemoved |-> FALSE,
                      maxParallelFetch |-> NumberToString(1)]
  /\ shape = "total"
  /\ quota = "all"
  /\ folderAccessState = "permission"
  /\ syncNow = NoSyncNow

SpecGuard ==
  /\ InitGuard
  /\ [][Next]_vars
  /\ WF_vars(BgConnect)
  /\ WF_vars(BgHandles)
  /\ WF_vars(BgTimeout)
  /\ WF_vars(CsProceeds)
  /\ WF_vars(WorkerSettles)
  /\ WF_vars(OrphanStep)

\* A synced folder with a recent full inventory, one worker, the
\* force-full-inventory message of the options page, and a storage that
\* refuses the whole sync state and takes the slim one: every write of the
\* background is the slim form of the state it was to write.
InitWrites ==
  /\ InitAfter({[remote |-> [id \in Ids |-> 1], known |-> [id \in Ids |-> 1],
                 lastFull |-> 0]})
  /\ quota = "slim"
  /\ storedOptions = [deleteRemoved |-> FALSE, maxParallelFetch |-> NumberToString(1)]
  /\ shape = "total"

SpecWrites == InitWrites /\ [][NextForce]_vars

\* A page request of the lister is outstanding and the background has taken
\* what the content script posted: CsPage is enabled.
PageDue == Delivered /\ csPc = "listing" /\ pageReq # << >>

\* What the code has scheduled happens: the background connects and handles
\* the messages of its port, the content script and the workers go on, a page
\* request is answered (weak fairness of CsPage, with PageDue for ENABLED
\* CsPage), the alarm fires again and the browser stops a service worker that
\* only waits.
Scheduled ==
  /\ WF_vars(BgTrigger)
  /\ WF_vars(BgWorkerRestart)
  /\ WF_vars(BgConnect)
  /\ WF_vars(BgHandles)
  /\ WF_vars(CsProceeds)
  /\ WF_vars(WorkerSettles)
  /\ WF_vars(OrphanStep)
  /\ ([]<>(~PageDue) \/ []<><<PageDue /\ cs' # cs>>_vars)

\* Every record synced at time 1 a while ago, and every record updated since.
ScenarioUpdated ==
  [remote |-> [id \in Ids |-> MaxTime], known |-> [id \in Ids |-> 1], lastFull |-> 0]

\* One worker, the files of removed records kept: partial passes.
InitUpdated ==
  /\ InitAfter({ScenarioUpdated})
  /\ quota = "all"
  /\ storedOptions = [deleteRemoved |-> FALSE, maxParallelFetch |-> NumberToString(1)]
  /\ shape = "total"

SpecUpdated == InitUpdated /\ [][Next]_vars /\ Scheduled

\* A cold start with one worker and the periodic alarm.
SpecInventory == InitGuard /\ [][Next]_vars /\ Scheduled

----------------------------------------------------------------------------
(* Steps the properties speak about.                                       *)

\* The step in which the content run ends its removal step, writes the index
\* and posts sync-complete.
FinalizeStep == csPc = "draining" /\ csPc' = "complete"

\* The step in which the background handles sync-complete (the timeout, the
\* other way from running to idle, is counted in faults).
CompleteStep ==
  /\ bgPc = "running" /\ bgPc' = "idle"
  /\ chan # << >> /\ Head(chan).type = "sync-complete"
  /\ faults' = faults

\* The ids in the metadata of the content run that the run did not observe.
Unobserved(c) == (DOMAIN c.metaMap) \ c.currentIds

\* Body fetches in flight: those of the current run and those of the workers
\* that failed runs left behind.
RECURSIVE OrphanFetches(_)
OrphanFetches(os) ==
  IF os = << >> THEN 0
  ELSE Cardinality({j \in Head(os).busy : j.phase = "fetch"}) + OrphanFetches(Tail(os))

InFlight == Cardinality({j \in busy : j.phase = "fetch"}) + OrphanFetches(orphans)

----------------------------------------------------------------------------
(* Properties.                                                             *)

\* C1: watermark monotonicity.  Whenever the persisted sync state changes, every
\* id that is in syncState.conversations before and after keeps or raises its
\* update_time; a run is a sequence of such steps, so the same holds from the
\* start of a run to its end.
C1_WatermarkMonotonic ==
  [][\A id \in (DOMAIN stored.conversations) \cap (DOMAIN stored'.conversations) :
       stored'.conversations[id] >= stored.conversations[id]]_vars

\* A run is over and an id that was persisted when it started now has a
\* higher persisted update_time.
C1_Witness ==
  /\ bgPc = "idle"
  /\ runCount > 0
  /\ \E id \in (DOMAIN startConversations) \cap (DOMAIN stored.conversations) :
       stored.conversations[id] > startConversations[id]

\* C2: removal safety across resume.  While the remote collection has not
\* changed (every record is present throughout), no step removes an id from
\* syncState.conversations, syncState.meta, index.json or the artifacts.
C2_RemovalSafety ==
  [][remoteChanges' = 0 =>
       /\ DOMAIN stored.conversations \subseteq DOMAIN stored'.conversations
       /\ DOMAIN stored.meta \subseteq DOMAIN stored'.meta
       /\ index # << >> => (index' # << >> /\ DOMAIN index[1] \subseteq DOMAIN index'[1])
       /\ artifacts \subseteq artifacts']_vars

\* The ways of leaving the listing loop after which no removal may happen.
GatedEnd(c) == c.listEnd \in {"ceiling", "empty-first"} \/ ~c.forceFullInventory

\* C3: full-pass completeness gate.  In a run whose listing ended at the page
\* ceiling or with an empty first page, and in every partial pass, the removal
\* step drops no id from the index, calls deleteConversation for none and
\* deletes no artifact, and the background prunes nothing at sync-complete.
C3_CompletenessGate ==
  [][/\ (FinalizeStep /\ GatedEnd(cs)) =>
          /\ index' = <<cs.metaMap>>
          /\ cs'.metaMap = cs.metaMap
          /\ delAttempted' = {}
          /\ artifacts' = artifacts
     /\ (CompleteStep /\ csPc = "complete" /\ GatedEnd(cs)) =>
          /\ stored'.conversations = nextState.conversations
          /\ stored'.meta = nextState.meta
          /\ stored'.lastRun = nextState.lastRun
          /\ stored'.lastFullInventoryAt = nextState.lastFullInventoryAt]_vars

\* A full pass has ended at the page ceiling with ids in its metadata that it
\* did not observe, and has completed.
C3_Witness ==
  /\ csPc = "complete"
  /\ cs.forceFullInventory
  /\ cs.listEnd = "ceiling"
  /\ Unobserved(cs) # {}
  /\ artifacts # {}

\* C4: retry after failure.  An id whose body fetch failed in the last
\* completed run, and that a listing step observes again with the same
\* update_time, is enqueued for a body fetch by that step.
C4_RetryAfterFailure ==
  [][\A f \in retry :
       (/\ csPc = "listing"
        /\ f.id \in cs'.currentIds \ cs.currentIds
        /\ remote[f.id] = f.updateTime)
       => \/ \E j \in busy' : j.id = f.id
          \/ \E i \in 1..Len(queue') : queue'[i].id = f.id]_vars

\* C5: the frame of conversation-error.  The handler records the run record
\* {status error, the message's error text or "Unknown error", the watermark
\* as it was} for the id and leaves syncState.conversations as it was: no entry
\* is created or changed, in memory or in what a checkpoint persists.
C5_ErrorFrame ==
  [][(/\ bgPc = "running" /\ bgPc' = "running"
      /\ chan # << >> /\ Head(chan).type = "conversation-error"
      /\ chan' = Tail(chan))
     => LET id == Head(chan).id
        IN /\ nextState'.conversations = nextState.conversations
           /\ id \in DOMAIN nextState'.lastRun
           /\ nextState'.lastRun[id].status = "error"
           /\ nextState'.lastRun[id].error =
                (IF Head(chan).error = "" THEN "Unknown error" ELSE Head(chan).error)
           /\ nextState'.lastRun[id].update_time = Get(nextState.conversations, id)
           /\ stored'.conversations \in {stored.conversations, nextState.conversations}]_vars

\* The background has handled a conversation-error of the current run for an
\* id that has no watermark.
C5_Witness ==
  /\ bgPc = "running"
  /\ \E id \in bgCurrentIds :
       /\ id \in DOMAIN nextState.lastRun
       /\ nextState.lastRun[id].status = "error"
       /\ id \notin DOMAIN nextState.conversations

\* C6: removal with deleteRemoved = true.  When a full pass completes, every id
\* of the prior metadata that the pass did not observe is dropped from the
\* metadata and the written index and deleteConversation is called for it; the
\* error counter grows by the number of failed deletions and the pass
\* completes.  At sync-complete the background drops from
\* syncState.conversations and syncState.meta every id it did not see.
C6_RemovalWithDelete ==
  [][/\ (FinalizeStep /\ cs.didFullInventory /\ cs.options.deleteRemoved) =>
          /\ \A id \in Unobserved(cs) :
               /\ id \notin DOMAIN cs'.metaMap
               /\ index' # << >> /\ id \notin DOMAIN index'[1]
               /\ id \in delAttempted'
          /\ delFailed' \subseteq delAttempted'
          /\ artifacts' = artifacts \ (delAttempted' \ delFailed')
          /\ cs'.errorCount = cs.errorCount + Cardinality(delFailed')
     /\ (CompleteStep /\ Head(chan).fullInventory /\ bgOptions.deleteRemoved) =>
          /\ DOMAIN stored'.conversations = (DOMAIN nextState.conversations) \cap bgCurrentIds
          /\ DOMAIN stored'.meta = (DOMAIN nextState.meta) \cap bgCurrentIds]_vars

\* A full pass with deleteRemoved has completed although a deletion failed,
\* and the background has pruned an id that was persisted when the run started.
C6_Witness ==
  /\ csPc = "complete" /\ bgPc = "idle"
  /\ cs.didFullInventory /\ cs.options.deleteRemoved
  /\ delFailed # {}
  /\ cs.errorCount > 0
  /\ \E id \in delAttempted :
       /\ id \in DOMAIN startConversations
       /\ id \notin DOMAIN stored.conversations
       /\ index # << >> /\ id \notin DOMAIN index[1]

\* C7 as the specification states it: with deleteRemoved = false an id that
\* the completed full pass did not observe stays in syncState.conversations
\* and syncState.meta, and no deletion is attempted.
C7_Retained ==
  [][/\ (FinalizeStep /\ cs.didFullInventory /\ ~cs.options.deleteRemoved) =>
          delAttempted' = {}
     /\ (CompleteStep /\ Head(chan).fullInventory /\ ~bgOptions.deleteRemoved) =>
          /\ DOMAIN nextState.conversations \subseteq DOMAIN stored'.conversations
          /\ DOMAIN nextState.meta \subseteq DOMAIN stored'.meta]_vars

\* C7 as the code has it: with deleteRemoved = false the unobserved ids are
\* dropped from the metadata, the index and the persisted state all the same;
\* deleteConversation is called for none, every artifact stays and the error
\* counter does not move.
C7_RemovedWithoutDelete ==
  [][/\ (FinalizeStep /\ cs.didFullInventory /\ ~cs.options.deleteRemoved) =>
          /\ \A id \in Unobserved(cs) :
               /\ id \notin DOMAIN cs'.metaMap
               /\ index' # << >> /\ id \notin DOMAIN index'[1]
          /\ delAttempted' = {}
          /\ artifacts' = artifacts
          /\ cs'.errorCount = cs.errorCount
     /\ (CompleteStep /\ Head(chan).fullInventory /\ ~bgOptions.deleteRemoved) =>
          /\ DOMAIN stored'.conversations = (DOMAIN nextState.conversations) \cap bgCurrentIds
          /\ DOMAIN stored'.meta = (DOMAIN nextState.meta) \cap bgCurrentIds]_vars

\* A full pass without deleteRemoved has completed: an id that was persisted
\* when the run started is gone from the persisted state and the index, and
\* its artifact is still there.
C7_Witness ==
  /\ csPc = "complete" /\ bgPc = "idle"
  /\ cs.didFullInventory /\ ~cs.options.deleteRemoved
  /\ delAttempted = {}
  /\ \E id \in artifacts :
       /\ id \in DOMAIN startConversations
       /\ id \notin DOMAIN stored.conversations
       /\ id \notin DOMAIN stored.meta
       /\ index # << >> /\ id \notin DOMAIN index[1]

\* C8: resume correctness.  The first page a run requests is at the offset of
\* the persisted cursor when the run is a full pass and the cursor is at most
\* 24 h old, and at offset 0 when the cursor is older or absent or the run is a
\* partial pass.
C8_ResumeOffset ==
  [][(startSync # << >> /\ csPc' = "listing" /\ csPc # "listing" /\ pageReq' # << >>)
     => LET cursor == startSync[1].inventoryCursor
            fresh == /\ cursor # NoCursor
                     /\ now - cursor[1].updatedAt <= MAX_PARTIAL_AGE
        IN /\ pageReq'[1].offset =
                (IF cs'.forceFullInventory /\ fresh THEN cursor[1].offset ELSE 0)
           /\ cs'.offset = pageReq'[1].offset]_vars

\* A full pass has started at the non-zero offset of a persisted cursor.
C8_Witness ==
  /\ csPc = "listing"
  /\ cs.forceFullInventory
  /\ cs.pageCount = 0
  /\ pageReq # << >> /\ pageReq[1].offset > 0
  /\ stored.inventoryCursor # NoCursor
  /\ stored.inventoryCursor[1].offset = pageReq[1].offset

\* C9: concurrency bound.  The body fetches in flight are at most the
\* configured parallelism, clamped.
C9_ConcurrencyBound ==
  InFlight <= clampParallelFetch(storedOptions.maxParallelFetch)

\* A step of the listing loop that classifies the n items of a page.
PageStep(n) ==
  /\ csPc = "listing" /\ pageReq # << >>
  /\ cs'.pageCount = cs.pageCount + 1
  /\ ~OverCeiling(cs'.pageCount)
  /\ cs'.listedCount = cs.listedCount + n

\* The step hands a body fetch of id to a worker or to the queue.
FetchEnqueued(id) ==
  \/ \E job \in busy' \ busy : job.id = id /\ job.phase = "fetch"
  \/ /\ Len(queue') > Len(queue)
     /\ \E i \in (Len(queue) + 1)..Len(queue') : queue'[i].id = id

\* The step posts conversation-skip for id.
SkipPosted(id) ==
  \E i \in 1..Len(chan') : chan'[i].type = "conversation-skip" /\ chan'[i].id = id

\* The step classifies id unchanged: no body fetch, and conversation-skip
\* is posted when the port is still connected.
ClassifiedUnchanged(id) ==
  ~FetchEnqueued(id) /\ (csPortLive => SkipPosted(id))

\* C12 as stated: in a partial pass with W the maximum known watermark, the
\* first page whose minimum update time is at most W ends the listing, and
\* every listed item with update_time at most W is classified unchanged.
C12_ClassifiedAgainstW ==
  [][\A n \in 1..PageLimit :
       (PageStep(n) /\ ~cs.forceFullInventory) =>
         LET items == PageItems(remote, cs.offset, n)
             W == getMaxKnownUpdateTime(cs.knownConversations)
         IN /\ (\E i \in 1..n : ObservedTime(items[i]) <= W) => pageReq' = << >>
            /\ \A i \in 1..n :
                 ObservedTime(items[i]) <= W =>
                   ClassifiedUnchanged(items[i].id)]_vars

\* C12, amended: in a partial pass with W > 0 the maximum known watermark,
\* the first page whose minimum update time is at most W ends the listing;
\* a listed item is classified unchanged, with no body fetch, exactly when
\* its update time is at most the watermark known for its own id, and is
\* handed to a body fetch otherwise.
C12_StopRule ==
  [][\A n \in 1..PageLimit :
       (PageStep(n) /\ ~cs.forceFullInventory) =>
         LET items == PageItems(remote, cs.offset, n)
             W == getMaxKnownUpdateTime(cs.knownConversations)
         IN /\ (W > 0 /\ \E i \in 1..n : ObservedTime(items[i]) <= W)
                 => (pageReq' = << >> /\ csPc' = "draining")
            /\ \A i \in 1..n :
                 IF ObservedTime(items[i]) <= Get(cs.knownConversations, items[i].id)
                 THEN ClassifiedUnchanged(items[i].id)
                 ELSE FetchEnqueued(items[i].id) /\ ~SkipPosted(items[i].id)]_vars

\* A partial pass has just stopped for time on a page that held both an
\* unchanged item and an item newer than its own watermark.
C12_Witness ==
  /\ csPc = "draining" /\ cs.listEnd = "time" /\ ~cs.forceFullInventory
  /\ \E i \in 1..Len(chan) : chan[i].type = "conversation-skip"
  /\ \E job \in busy : job.phase = "fetch" /\ job.updateTime <= cs.stopAfterTime

\* The step in which the content script accepts start-sync and decides the
\* mode of the pass.
StartStep == startSync # << >> /\ ~csInProgress /\ csInProgress'

\* C13: a pass is full exactly when the merged KnownState is empty, or
\* deleteRemoved is enabled, or lastFullInventoryAt is absent or no date, or
\* more than MAX_PARTIAL_AGE has passed since; it is partial otherwise, and
\* sync-mode reports the mode.
C13_ModeSelection ==
  [][StartStep =>
       LET msg == startSync[1]
           known == mergeKnownState(msg.knownConversations, msg.knownMeta,
                                    readIndex).conversations
           last == msg.lastFullInventoryAt
           full == \/ known = EmptyMap
                   \/ msg.options.deleteRemoved
                   \/ last \in {NullTime, UnparseableTime}
                   \/ now - last > MAX_PARTIAL_AGE
       IN /\ cs'.forceFullInventory = full
          /\ chan'[Len(chan')].type = "sync-mode"
          /\ chan'[Len(chan')].fullInventory = full]_vars

\* A pass has just started as full for the one reason that the stored
\* lastFullInventoryAt is no date.
C13_Witness ==
  /\ csPc = "listing" /\ cs.pageCount = 0 /\ cs.forceFullInventory
  /\ cs.knownConversations # EmptyMap
  /\ ~cs.options.deleteRemoved
  /\ stored.lastFullInventoryAt = UnparseableTime

\* The jobs for id that wait in the queue or are with a worker.
JobsFor(id) ==
  Cardinality({job \in busy : job.id = id})
    + Cardinality({i \in 1..Len(queue) : queue[i].id = id})

\* A run that started from the KnownState of ScenarioAB, on its remote, with
\* no failure and no remote change so far.
InScenarioAB ==
  /\ remote = ScenarioAB.remote /\ remoteChanges = 0 /\ faults = 0
  /\ startConversations = ScenarioAB.known
  /\ orphans = << >>

\* C14: from KnownState {A:1}, with the listing [A at 1, B at 2], A is never
\* handed to a body fetch, B is fetched once (one job, and none after its
\* watermark was recorded), and the completed run persists exactly the
\* watermarks {A:1, B:2}, with A unchanged and B updated in the run record.
C14_ScenarioAB ==
  InScenarioAB =>
    LET A == IdOrder[1]
        B == IdOrder[2]
    IN /\ JobsFor(A) = 0
       /\ JobsFor(B) <= 1
       /\ JobsFor(B) = 1 => Get(nextState.conversations, B) = 0
       /\ lastPass.done =>
            /\ stored.conversations = (A :> 1) @@ (B :> 2)
            /\ stored.lastRun[A].status = "unchanged"
            /\ stored.lastRun[B].status = "updated"

\* The run of the scenario has completed and its state is persisted.
C14_Witness ==
  /\ InScenarioAB /\ lastPass.done /\ ~bgInProgress
  /\ stored.conversations = (IdOrder[1] :> 1) @@ (IdOrder[2] :> 2)

\* Every candidate size of a page request has failed: the listing loop
\* throws and the content run ends.
PageFailStep == csPc = "listing" /\ csPc' = "failed"

\* The background takes the sync-error of the failed listing.
FailureReceived ==
  /\ bgPc = "running" /\ csPc = "failed"
  /\ chan # << >> /\ Head(chan).type = "sync-error"
  /\ bgPc' = "idle" /\ faults' = faults

\* The cursor is none, or the one the run found, or the offset the run
\* started at, or the next offset of a page that is done as are all pages
\* before it.
ValidCursor(cursor) ==
  \/ cursor = NoCursor
  \/ cursor = startState.inventoryCursor
  \/ cursor[1].offset = cs.resumeOffset
  \/ \E i \in 1..Len(cs.pageStates) :
       /\ cursor[1].offset = cs.pageStates[i].nextOffset
       /\ \A j \in 1..i : cs.pageStates[j].done /\ cs.pageStates[j].remaining = 0

\* C15: when a page request fails for every candidate size, the content run
\* ends with sync-error and touches neither index.json, nor the files, nor
\* the remote; no removal step and no index rewrite follow while the run
\* stays failed; the background ends the run with lastError set, persists
\* nothing more, and what is persisted has the lastFullInventoryAt the run
\* found, every id the run found at a watermark not lower, and a cursor
\* that is not past an unfinished page.
C15_ListingFailure ==
  [][/\ PageFailStep =>
          /\ index' = index /\ artifacts' = artifacts /\ remote' = remote
          /\ stored' = stored /\ delAttempted' = delAttempted
          /\ ~csInProgress'
          /\ csPortLive => chan' = <<[type |-> "sync-error"]>>
     /\ (csPc = "failed" /\ csPc' = "failed") =>
          (index' = index /\ delAttempted' = delAttempted)
     /\ FailureReceived =>
          /\ lastError' # "" /\ ~lastPass'.done /\ ~bgInProgress'
          /\ stored' = stored
          /\ stored'.lastFullInventoryAt = startState.lastFullInventoryAt
          /\ \A id \in DOMAIN startConversations :
               /\ id \in DOMAIN stored'.conversations
               /\ stored'.conversations[id] >= startConversations[id]
          /\ ValidCursor(stored'.inventoryCursor)]_vars

\* A run has failed on a page request after a checkpoint of its own: the
\* background is idle with lastError set, and the persisted state holds a
\* watermark and a cursor the run wrote.
C15_Witness ==
  /\ csPc = "failed" /\ bgPc = "idle" /\ lastError = RejectMessage("sync-error")
  /\ stored.conversations # startConversations
  /\ stored.inventoryCursor # NoCursor
  /\ stored.inventoryCursor # startState.inventoryCursor
  /\ stored.inventoryCursor[1].offset > 0

\* The force-full-inventory handler writes the reset sync state.
ForceWriteStep == forceMsg.pc = "setSyncState" /\ forceMsg'.pc = "runSync"

\* The force-full-inventory handler calls runSync and answers.
ForceCallStep == forceMsg.pc = "runSync" /\ forceMsg'.pc = "idle"

\* The three fields are as the reset leaves them.
IsReset(state) ==
  /\ state.lastFullInventoryAt = NullTime
  /\ state.inventoryCursor = NoCursor
  /\ state.inventoryInProgress = FALSE

\* No run was active when the force-full-inventory message arrived and none
\* has started since, but for k runs.
RunsSinceForce(k) == forceMsg.pc # "idle" /\ runCount = forceMsg.runs + k

\* The run at hand is the one a force-full-inventory request triggered, no
\* other run having started since the message arrived.
ForcedRun ==
  /\ reason = "manual-full-inventory" /\ forceMsg.response = "ok"
  /\ runCount = forceMsg.runs + 1

\* C16: a force-full-inventory request handled while no run is active
\* persists lastFullInventoryAt and inventoryCursor null and
\* inventoryInProgress false; they are still so when its runSync has taken
\* the guard and until the run reads them; and the run it triggers is
\* selected as a full pass whose first page is requested at offset 0.
C16_ForceWhenIdle ==
  [][/\ (ForceWriteStep /\ RunsSinceForce(0)) => IsReset(stored')
     /\ (ForceCallStep /\ RunsSinceForce(0)) =>
          (bgInProgress' /\ bgPc' = "starting" /\ forceMsg'.response = "ok")
     /\ (bgPc' = "starting" /\ ForcedRun') => IsReset(stored')
     /\ (StartStep /\ ForcedRun) =>
          /\ startState.lastFullInventoryAt = NullTime
          /\ startState.inventoryCursor = NoCursor
          /\ cs'.forceFullInventory
          /\ cs'.resumeOffset = 0
          /\ pageReq' = <<[offset |-> 0, limit |-> PageLimit]>>
          /\ chan'[Len(chan')].type = "sync-mode"
          /\ chan'[Len(chan')].fullInventory]_vars

\* The run a force-full-inventory request triggered has started listing as
\* a full pass, on a KnownState that is not empty, with deleteRemoved off
\* and within a day of the full inventory the reset has erased.
C16_Witness ==
  /\ ForcedRun
  /\ csPc = "listing" /\ cs.pageCount = 0 /\ cs.forceFullInventory
  /\ cs.knownConversations # EmptyMap
  /\ ~cs.options.deleteRemoved
  /\ now <= MAX_PARTIAL_AGE

\* C17: the force-full-inventory request never writes the reset sync state
\* while a run is active, and it answers with an error, not with ok,
\* whenever a run is active when it writes the reset or when it calls
\* runSync.
C17_ForceVersusRun ==
  [][/\ ForceWriteStep => ~bgInProgress
     /\ (ForceCallStep /\ bgInProgress) => forceMsg'.response # "ok"]_vars

\* The number of workers the text of maxParallelFetch stands for.
ExpectedWorkers(text) == (CHOOSE c \in RawCases : c.text = text).workers

\* C18: the options a run reads carry maxParallelFetch parsed as an integer
\* and clamped to [1, 10], 3 when the parse gives no number; the content run
\* starts that many workers; normalizeOptions and clampParallelFetch agree
\* on every value; update-options stores a value in [1, 10].
C18_WorkerClamp ==
  [][/\ \A text \in RawValues :
          /\ clampParallelFetch(text) = ExpectedWorkers(text)
          /\ normalizeOptions([deleteRemoved |-> FALSE,
                               maxParallelFetch |-> text]).maxParallelFetch
               = clampParallelFetch(text)
     /\ (bgPc = "idle" /\ bgPc' = "starting") =>
          bgOptions'.maxParallelFetch = ExpectedWorkers(storedOptions.maxParallelFetch)
     /\ (bgPc = "starting" /\ bgPc' = "running") =>
          startSync'[1].options = bgOptions
     /\ StartStep =>
          /\ queueWaiters' = startSync[1].options.maxParallelFetch
          /\ queueWaiters' = bgOptions.maxParallelFetch
          /\ queueWaiters' \in 1..10
          /\ cs'.options.parallelLimit = queueWaiters'
     /\ storedOptions' # storedOptions =>
          parseInt(storedOptions'.maxParallelFetch) \in 1..10]_vars

\* A run has started three workers on a stored maxParallelFetch that is no
\* number.
C18_Witness ==
  /\ csPc = "listing" /\ cs.pageCount = 0
  /\ parseInt(storedOptions.maxParallelFetch) = NotFinite
  /\ bgOptions.maxParallelFetch = 3
  /\ queueWaiters = 3

\* The message reports a cursor.
IsCursorMsg(m) == m.type = "sync-progress"

\* A step of a content run that listing or a worker takes, the background
\* having taken all earlier messages.
ContentStep ==
  /\ chan = << >> /\ CsRunning
  /\ csPc' \in {"listing", "draining", "complete"}

\* C19: a content run reports the cursor of page i, that is page i's next
\* offset, only in a step after which every page up to i is done and has no
\* item left in the queue or with a worker; a step reports the cursors of
\* the pages that became reportable, in listing order, none twice and none
\* left out; the offsets rise strictly from page to page, above the offset
\* the run started at; and the background takes a reported cursor as it is,
\* above the one it held.
C19_CursorOrder ==
  [][/\ ContentStep =>
          LET ps == cs'.pageStates
              old == cs.nextCursorIndex
              new == cs'.nextCursorIndex
              posted == SelectSeq(chan', IsCursorMsg)
          IN /\ old <= new /\ new <= Len(ps)
             /\ Len(posted) = (IF csPortLive THEN new - old ELSE 0)
             /\ \A k \in 1..Len(posted) :
                  posted[k].cursor = [offset |-> ps[old + k].nextOffset,
                                      limit |-> ps[old + k].limit]
             /\ \A j \in 1..new :
                  /\ ps[j].done /\ ps[j].remaining = 0
                  /\ \A job \in busy' : job.pageIndex # j
                  /\ \A i \in 1..Len(queue') : queue'[i].pageIndex # j
             /\ \A j \in 1..Len(ps) :
                  ps[j].nextOffset > (IF j = 1 THEN cs'.resumeOffset
                                      ELSE ps[j - 1].nextOffset)
             /\ ~cs'.forceFullInventory => new = 0
     /\ (bgPc = "running" /\ bgPc' = "running" /\ chan # << >>
         /\ IsCursorMsg(Head(chan)) /\ chan' = Tail(chan)) =>
          IF fullInventoryMode
          THEN /\ nextState'.inventoryCursor[1].offset = Head(chan).cursor.offset
               /\ nextState.inventoryCursor # NoCursor
               /\ nextState.inventoryCursor[1].offset < Head(chan).cursor.offset
          ELSE nextState'.inventoryCursor = nextState.inventoryCursor]_vars

\* Page 2 was done before page 1: the step that finished page 1 has reported
\* both cursors, in listing order.
C19_Witness ==
  /\ CsRunning /\ cs.forceFullInventory /\ cs.nextCursorIndex = 2
  /\ Len(chan) >= 2
  /\ IsCursorMsg(chan[Len(chan) - 1]) /\ IsCursorMsg(chan[Len(chan)])
  /\ chan[Len(chan) - 1].cursor.offset = cs.pageStates[1].nextOffset
  /\ chan[Len(chan)].cursor.offset = cs.pageStates[2].nextOffset

\* C20: the persisted lastFullInventoryAt changes only in the step that
\* takes the sync-complete of a pass that started as a full inventory and
\* left its listing by an empty page after the first or by a last page,
\* not by the page ceiling, an empty first page or the stop for time; it
\* becomes the current time then; every other step, a checkpoint, the end
\* of a partial pass, a rejected or timed-out run, leaves it as it is, in
\* the storage and in the nextState of the run.
C20_LastFullInventoryAt ==
  [][/\ stored'.lastFullInventoryAt # stored.lastFullInventoryAt =>
          /\ CompleteStep
          /\ Head(chan).type = "sync-complete" /\ Head(chan).fullInventory
          /\ fullInventoryMode
          /\ stored'.lastFullInventoryAt = now
          /\ csPc = "complete"
          /\ cs.forceFullInventory /\ cs.didFullInventory
          /\ cs.listEnd \in {"empty", "last-page"}
     /\ (CompleteStep /\ Head(chan).type = "sync-complete" /\ Head(chan).fullInventory)
          => stored'.lastFullInventoryAt = now
     /\ (bgPc = "running" /\ bgPc' = "running") =>
          nextState'.lastFullInventoryAt = nextState.lastFullInventoryAt]_vars

\* A full inventory has completed on a later day than the one before it:
\* the persisted lastFullInventoryAt is the current time.
C20_Witness ==
  /\ bgPc = "idle" /\ lastPass.done /\ ~lastPass.partial
  /\ csPc = "complete" /\ cs.didFullInventory
  /\ startState.lastFullInventoryAt # NullTime
  /\ startState.lastFullInventoryAt < now
  /\ stored.lastFullInventoryAt = now

\* C21: pool termination.  sync-complete is posted only in a step taken when
\* the listing loop is left, the queue is empty, no worker holds an item or
\* waits in dequeueItem and every worker of the pool has returned; once
\* the listing loop is left no worker waits in dequeueItem; and, every body
\* fetch and write ending, the workers all return (or the tab is closed).
C21_PoolTermination ==
  /\ [][FinalizeStep =>
          /\ cs.listingDone
          /\ queue = << >> /\ busy = {} /\ queueWaiters = 0
          /\ exited = cs.options.parallelLimit]_vars
  /\ [](csPc = "draining" => queueWaiters = 0)
  /\ (csPc = "draining") ~> (AllWorkersReturned \/ csPc = "idle")

\* The pool has drained a queue that held an item when the listing loop was
\* left: two workers at least have returned, one after a failed fetch, and
\* sync-complete is posted.
C21_Witness ==
  /\ csPc = "complete" /\ exited >= 2 /\ AllWorkersReturned
  /\ cs.errorCount > 0
  /\ Cardinality(cs.currentIds) > exited
  /\ cs.listEnd = "last-page"

\* processItem ends in its catch for the item of job: a worker of the run
\* gives the item up, with no write to follow and no update counted, while
\* the content run goes on.
ItemFailStep(job) ==
  /\ CsRunning /\ csPc' \in {"listing", "draining"}
  /\ job \in busy /\ job \notin busy'
  /\ ~\E j \in busy' : j.id = job.id /\ j.phase = "write"
  /\ cs'.updatedCount = cs.updatedCount

\* The background handles a conversation-error.
ErrorReceived ==
  /\ bgPc = "running" /\ chan # << >>
  /\ Head(chan).type = "conversation-error"
  /\ faults' = faults

\* C22: a body fetch or a file write that fails for one item posts one
\* conversation-error with the id of the item, raises errorCount by one,
\* lowers the remaining count of the item's page by one and of no other page,
\* and leaves the listing loop, the page request, the queue's other items and
\* the other workers as they are; the background records the error and goes
\* on with the run; and a run with such errors ends with sync-complete, its
\* terminal status carrying the error count and no lastError.
C22_ItemFailure ==
  [][/\ \A job \in busy :
          ItemFailStep(job) =>
            LET p == job.pageIndex
                posted == SelectSeq(chan', LAMBDA m : m.type = "conversation-error")
            IN /\ cs'.errorCount = cs.errorCount + 1
               /\ csPortLive => (/\ Len(posted) = 1
                                 /\ posted[1].id = job.id
                                 /\ chan'[1] = posted[1])
               /\ cs'.pageStates[p].remaining = cs.pageStates[p].remaining - 1
               /\ \A q \in (DOMAIN cs.pageStates) \ {p} :
                    cs'.pageStates[q] = cs.pageStates[q]
               /\ csPc' = csPc /\ pageReq' = pageReq /\ csInProgress'
               /\ cs'.listingDone = cs.listingDone
               /\ busy \ {job} \subseteq busy'
               /\ \A i \in 1..Len(queue') : \E k \in 1..Len(queue) : queue[k] = queue'[i]
               /\ bgPc' = bgPc /\ lastError' = lastError
     /\ ErrorReceived =>
          /\ bgPc' = "running" /\ bgInProgress' /\ lastError' = lastError
          /\ Head(chan).id \in bgCurrentIds'
     /\ CompleteStep =>
          /\ lastPass'.done /\ lastPass'.errors = Head(chan).errors
          /\ lastError' = ""]_vars

\* A run in which the write of one item failed has completed: the other
\* items were synced by the other worker, and the background has recorded
\* the error of the one and the watermarks of the others.
C22_Witness ==
  /\ csPc = "complete" /\ bgPc = "idle"
  /\ lastPass.done /\ lastPass.errors = 1 /\ lastError = ""
  /\ cs.errorCount = 1 /\ cs.updatedCount = 2
  /\ cs.failedFetches = {}
  /\ \E id \in Ids :
       /\ id \in DOMAIN stored.lastRun /\ stored.lastRun[id].status = "error"
       /\ \A o \in Ids \ {id} :
            o \in DOMAIN stored.lastRun /\ stored.lastRun[o].status = "updated"

\* The items of the pages the run has classified.
ClassifiedCount(c) ==
  IF c.pageStates = << >> THEN 0
  ELSE c.pageStates[Len(c.pageStates)].nextOffset - c.resumeOffset

\* The items of page i that wait in the queue or are with a worker.
PendingOf(i) ==
  Cardinality({job \in busy : job.pageIndex = i})
    + Cardinality({k \in 1..Len(queue) : queue[k].pageIndex = i})

\* C23: every item of a classified page is marked as seen and is either
\* skipped (conversation-skip, no body fetch) or handed to one body fetch,
\* never both; it is handed to a body fetch exactly when its update_time, or
\* its create_time when it has no update_time, is greater than the watermark
\* known for its id (0 when there is none); and at every point of a run each
\* classified item is either waiting or in work once, or has ended in
\* exactly one of unchanged, updated and error.
C23_Classification ==
  /\ [][\A n \in 1..PageLimit :
          PageStep(n) =>
            LET items == PageItems(remote, cs.offset, n)
                observed(i) == IF items[i].update_time \in Nat \ {0}
                               THEN items[i].update_time
                               ELSE items[i].create_time
                known(i) == IF items[i].id \in DOMAIN cs.knownConversations
                            THEN cs.knownConversations[items[i].id] ELSE 0
                changed == {i \in 1..n : observed(i) > known(i)}
            IN /\ \A i \in 1..n :
                    /\ items[i].id \in cs'.currentIds
                    /\ FetchEnqueued(items[i].id) <=> i \in changed
                    /\ csPortLive => (SkipPosted(items[i].id) <=> i \notin changed)
               /\ Cardinality(busy' \ busy) + Len(queue') - Len(queue)
                    = Cardinality(changed)
               /\ cs'.skippedCount - cs.skippedCount = n - Cardinality(changed)
               /\ cs'.pageStates[cs'.pageCount].remaining = Cardinality(changed)]_vars
  /\ [](CsRunning =>
          /\ \A i \in 1..Len(cs.pageStates) : cs.pageStates[i].remaining = PendingOf(i)
          /\ cs.skippedCount + cs.updatedCount + cs.errorCount
               + Cardinality(busy) + Len(queue) = ClassifiedCount(cs))
  /\ [](csPc = "complete" =>
          cs.skippedCount + cs.updatedCount + cs.errorCount - Cardinality(delFailed)
            = ClassifiedCount(cs))

\* A run has completed on a remote whose second record has no update_time
\* and was not known: the record was fetched on the strength of its
\* create_time, the known record was skipped and the fetch of the third
\* failed.
C23_Witness ==
  /\ csPc = "complete" /\ remoteChanges = 0
  /\ remote[IdOrder[2]] = MissingTime
  /\ IdOrder[2] \notin DOMAIN cs.knownConversations
  /\ IdOrder[2] \in artifacts
  /\ cs.skippedCount = 1 /\ cs.updatedCount = 1 /\ cs.errorCount = 1
  /\ cs.currentIds = Ids

\* The five-minute timer of the background run fires.
TimeoutStep ==
  /\ bgPc = "running" /\ bgPc' = "idle"
  /\ faults' = faults + 1
  /\ lastError' = "Sync timed out"

\* The background handles the disconnect of the port.
DisconnectStep ==
  /\ bgPc = "running" /\ chan # << >> /\ Head(chan).type = "disconnect"
  /\ faults' = faults

\* C24: when the timeout fires the run ends with lastError set and the guard
\* released, and the in-memory state of the run is persisted, with the run
\* records and the cursor received since the last checkpoint; the in-memory
\* state is persisted as well when the port disconnects.
C24_FinalCheckpoint ==
  [][/\ TimeoutStep =>
          /\ ~bgInProgress' /\ ~lastPass'.done
          /\ stored' = nextState
     /\ DisconnectStep => stored' = nextState]_vars

\* The background handles a message of the run and goes on with the run.
MessageStep(types) ==
  /\ bgPc = "running" /\ bgPc' = "running"
  /\ chan # << >> /\ chan' = Tail(chan)
  /\ Head(chan).type \in types

\* The messages that change nextState and are counted for the checkpoint.
CountedStep ==
  \/ MessageStep({"conversation", "conversation-skip", "conversation-error"})
  \/ MessageStep({"sync-progress"}) /\ fullInventoryMode

\* The step has written nextState as it leaves it, and counts from 0.
Checkpointed == stored' = nextState' /\ checkpointCount' = 0

\* C25: the handler of sync-mode writes a checkpoint at once; the handler of
\* a message that changes nextState writes one when the messages since the
\* last checkpoint reach CheckpointMinMessages, may write one before (15 s
\* have passed), and counts the message otherwise; so fewer than
\* CheckpointMinMessages such messages have been applied since the last
\* checkpoint in every state, and with none applied the persisted state is
\* the in-memory state.
C25_CheckpointBound ==
  /\ [][/\ MessageStep({"sync-mode"}) => Checkpointed
        /\ CountedStep =>
             IF checkpointCount + 1 >= CheckpointMinMessages
             THEN Checkpointed
             ELSE \/ Checkpointed
                  \/ stored' = stored /\ checkpointCount' = checkpointCount + 1
        /\ (MessageStep({"sync-progress"}) /\ ~fullInventoryMode) =>
             UNCHANGED <<nextState, stored, checkpointCount>>]_vars
  /\ [](checkpointCount < CheckpointMinMessages)
  /\ [](bgPc = "running" /\ checkpointCount = 0 => stored = nextState)

\* A run has checkpointed watermarks of its own and has applied one more
\* message since, which is not persisted yet.
C25_Witness ==
  /\ bgPc = "running"
  /\ checkpointCount = CheckpointMinMessages - 1
  /\ stored.conversations # startConversations
  /\ stored.conversations # nextState.conversations

\* The listing loop requests the page that follows the one it has taken.
FollowingRequest ==
  /\ csPc = "listing" /\ csPc' = "listing"
  /\ cs'.pageCount = cs.pageCount + 1
  /\ pageReq' # << >>

\* The items of the run that are classified: those that ended as unchanged,
\* updated or error and those in the queue or with a worker.
Accounted ==
  cs.skippedCount + cs.updatedCount + cs.errorCount + Cardinality(busy) + Len(queue)

\* C26 as stated: the request for the following page is issued when every
\* item of the page at hand has been classified.
C26_RequestAfterClassification ==
  [][FollowingRequest => cs'.unclassifiedAtRequest = 0]_vars

\* C26, amended: a page request is issued at the start of a run, none being
\* outstanding, or in the turn of the listing loop that has taken the answer
\* to the outstanding one, so that one request at most is outstanding; the
\* request for the following page is issued before the items of the page at
\* hand are classified, every item of the pages before being classified;
\* the turn classifies the items of the page before it ends, so that the
\* answer to the request is taken with every item before its offset
\* classified.
C26_SequentialListing ==
  [][/\ (pageReq' # pageReq /\ pageReq' # << >>) =>
          \/ StartStep /\ pageReq = << >>
          \/ FollowingRequest /\ pageReq # << >> /\ pageReq'[1].offset > pageReq[1].offset
     /\ FollowingRequest =>
          /\ cs'.unclassifiedAtRequest = cs'.listedCount - cs.listedCount
          /\ cs'.unclassifiedAtRequest > 0
          /\ pageReq[1].offset - cs.resumeOffset = Accounted
          /\ pageReq'[1].offset - cs'.resumeOffset = Accounted'
     /\ (csPc = "listing" /\ pageReq # << >> /\ chan = << >>) =>
          pageReq[1].offset - cs.resumeOffset = Accounted]_vars

\* The request for the second page is outstanding: it was issued with the
\* two items of the first page not yet classified, and a worker still holds
\* one of them.
C26_Witness ==
  /\ csPc = "listing" /\ pageReq # << >> /\ cs.pageCount = 1
  /\ cs.unclassifiedAtRequest = 2
  /\ pageReq[1].offset = cs.resumeOffset + 2
  /\ busy # {}

\* C27: when the answer to a page request carries has_more = false, the
\* listing loop requests no further page and is left, however many items
\* the page holds.
C27_NoRequestAfterEnd ==
  [][\A n \in 1..PageLimit :
       (/\ PageStep(n)
        /\ shape = "has_more"
        /\ ~(pageReq[1].offset + n < Cardinality(Present(remote))))
       => (pageReq' = << >> /\ csPc' = "draining")]_vars

\* The listing loop takes a page beyond the ceiling and is left.
CeilingStep ==
  /\ csPc = "listing" /\ csPc' \in {"draining", "failed"}
  /\ cs'.pageCount = cs.pageCount + 1
  /\ cs.pageCount = Len(cs.pageStates)
  /\ Len(cs'.pageStates) = Len(cs.pageStates)

\* C28: a run classifies the items of MaxPages pages at most and requests
\* one page more at most; the page beyond the ceiling ends the listing with
\* no error, its items unclassified; the run then drains its queue and posts
\* sync-complete with fullInventory false; and the background, for a pass
\* that started as a full inventory, ends the run with no lastError, leaves
\* lastFullInventoryAt as it is, keeps inventoryInProgress true and keeps
\* the cursor, which is the next offset of the last page classified.
C28_PageCeiling ==
  /\ [](Len(cs.pageStates) <= MaxPages /\ cs.pageCount <= MaxPages + 1)
  /\ [][/\ CeilingStep =>
             /\ Len(cs.pageStates) = MaxPages
             /\ csPc' = "draining" /\ cs'.listEnd = "ceiling"
             /\ ~cs'.didFullInventory
             /\ pageReq' = << >>
             /\ cs'.listingDone
             /\ cs'.currentIds = cs.currentIds
             /\ queue' = queue /\ busy' = busy
             /\ chan' = chan
        /\ (FinalizeStep /\ cs.listEnd = "ceiling") =>
             /\ queue = << >> /\ busy = {}
             /\ csPortLive =>
                  /\ chan'[Len(chan')].type = "sync-complete"
                  /\ ~chan'[Len(chan')].fullInventory
        /\ (CompleteStep /\ csPc = "complete" /\ cs.listEnd = "ceiling"
            /\ cs.forceFullInventory) =>
             /\ fullInventoryMode /\ ~Head(chan).fullInventory
             /\ lastError' = "" /\ lastPass'.done /\ ~lastPass'.partial
             /\ stored'.inventoryInProgress
             /\ stored'.lastFullInventoryAt = startState.lastFullInventoryAt
             /\ stored'.inventoryCursor # NoCursor
             /\ stored'.inventoryCursor[1].offset
                  = cs.pageStates[Len(cs.pageStates)].nextOffset]_vars
  /\ (csPc = "draining" /\ cs.listEnd = "ceiling") ~> (csPc \in {"complete", "idle"})

\* A full pass that met the page ceiling has completed: the background is
\* idle with no error, and the persisted state says the inventory is in
\* progress, with a cursor past the pages classified and no
\* lastFullInventoryAt.
C28_Witness ==
  /\ csPc = "complete" /\ bgPc = "idle"
  /\ cs.forceFullInventory /\ cs.listEnd = "ceiling"
  /\ Len(cs.pageStates) = MaxPages
  /\ lastPass.done /\ lastError = ""
  /\ stored.inventoryInProgress
  /\ stored.inventoryCursor # NoCursor
  /\ stored.inventoryCursor[1].offset = MaxPages * HalfLimit
  /\ stored.lastFullInventoryAt = NullTime

\* C29: the sizes fetchConversationPage tries for a page request, in the
\* order it tries them, start with the requested size and decrease strictly
\* (so they are distinct and bounded), for the first page of a run and for
\* a page requested after an earlier page has degraded to a smaller size.
C29_DecreasingSizes ==
  pageReq # << >> =>
    LET limits == PageLimits(pageReq[1].limit)
    IN /\ limits[1] = pageReq[1].limit
       /\ \A i, j \in 1..Len(limits) : i < j => limits[i] > limits[j]

\* The background handles a message that does not end the run.
OngoingStep ==
  /\ bgPc = "running" /\ chan # << >> /\ chan' = Tail(chan)
  /\ Head(chan).type \in {"sync-mode", "sync-progress", "conversation",
                          "conversation-skip", "conversation-error"}
  /\ faults' = faults

\* written is what the slim write of state leaves in storage.
IsSlimOf(written, state) ==
  /\ written.conversations = state.conversations
  /\ written.lastFullInventoryAt = state.lastFullInventoryAt
  /\ written.inventoryCursor = state.inventoryCursor
  /\ written.inventoryInProgress = state.inventoryInProgress
  /\ written.meta = EmptyMap
  /\ written.lastRun = EmptyMap

\* C30: on a storage that refuses the full state, setSyncState never fails to
\* its caller: the handler of a message goes on with the run, and the handler
\* of sync-complete ends the run with its terminal status.  When the slim
\* write is taken, storage holds the complete id -> watermark mapping,
\* lastFullInventoryAt, the cursor and the inventoryInProgress flag of the
\* state that was to be written, with metadata and run records emptied; when
\* the slim write is refused too, storage keeps what it had.
C30_StoreDegradation ==
  [][/\ OngoingStep =>
          /\ bgPc' = "running" /\ bgInProgress'
          /\ stored' # stored => quota = "slim" /\ IsSlimOf(stored', nextState')
          /\ (quota = "slim" /\ Head(chan).type = "sync-mode") =>
                IsSlimOf(stored', nextState')
     /\ CompleteStep =>
          /\ ~bgInProgress' /\ lastPass'.done /\ lastError' = ""
          /\ quota = "slim" =>
                IsSlimOf(stored', Completed(nextState, Head(chan), bgCurrentIds,
                                            fullInventoryMode))
     /\ DisconnectStep => (quota = "slim" => IsSlimOf(stored', nextState))
     /\ quota = "none" => stored' = stored]_vars

\* A full pass is complete on a storage that took slim states only: every
\* conversation has its watermark and the time of the pass in storage, and no
\* metadata and no run record is there.
C30_Witness ==
  /\ quota = "slim"
  /\ bgPc = "idle" /\ lastPass.done /\ ~lastPass.partial
  /\ DOMAIN stored.conversations = Ids
  /\ stored.lastFullInventoryAt # NullTime
  /\ stored.meta = EmptyMap /\ stored.lastRun = EmptyMap
  /\ index # << >>

\* Items of the run that were enqueued and have not reached a terminal state.
ItemsPending == queue # << >> \/ busy # {}

\* C31: while the listing of the run has not finished, or an item it enqueued
\* has not reached a terminal state, the bar shows less than 100 percent and a
\* target above the number processed; 100 percent is shown only when the
\* listing has finished and queue and workers are empty.
C31_ProgressCap ==
  /\ (csInProgress /\ (~cs.listingDone \/ ItemsPending)) =>
       /\ bar.width < 100
       /\ bar.total # 0 => bar.processed < bar.total
  /\ bar.width = 100 =>
       /\ csPc \in {"draining", "complete"}
       /\ cs.listingDone /\ ~ItemsPending
       /\ bar.processed = bar.total

\* The listing has finished, an item is still with a worker, and the bar
\* shows the share of the listed items that are processed.
C31_Witness ==
  /\ csInProgress /\ cs.listingDone /\ busy # {}
  /\ bar.processed > 0
  /\ bar.total = cs.listedCount
  /\ bar.width = (bar.processed * 100) \div bar.total
  /\ bar.width >= 50

\* The content run takes a step and stays the same run (the tab is not
\* closed); cs.target is the progress target it has reported last, the total
\* of sync-complete at the end.
RunStep == csInProgress /\ csPc' # "idle" /\ cs' # cs

\* C32: over one run the progress targets reported, the total of sync-complete
\* included, never decrease, and while the listing is in progress the target
\* reported is max(total hint of the remote, items listed so far).
C32_MonotonicTarget ==
  [][RunStep =>
       /\ cs'.target >= cs.target
       /\ (csPc' = "listing" /\ cs'.listedCount # 0) =>
            cs'.target = Max(cs'.totalHint, cs'.listedCount)]_vars

\* C32 as the code has it: before the run finalizes the target reported never
\* decreases, and while the listing is in progress it is max(total hint,
\* items listed so far, processed + 1); the total of sync-complete is
\* max(total hint, items listed) after a full inventory that listed something
\* and the number of items processed otherwise, which can be below the target
\* reported last.
C32_TargetAhead ==
  [][RunStep =>
       IF csInProgress'
       THEN /\ cs'.target >= cs.target
            /\ (csPc' = "listing" /\ cs'.listedCount # 0) =>
                 cs'.target = Max(Max(cs'.totalHint, cs'.listedCount),
                                  cs'.processed + 1)
       ELSE /\ cs'.target = IF cs.didFullInventory
                               /\ Max(cs.totalHint, cs.listedCount) # 0
                            THEN Max(cs.totalHint, cs.listedCount)
                            ELSE cs.processed
            /\ csPortLive => chan'[Len(chan')].total = cs'.target]_vars

\* The listing is in progress and every item listed so far is processed: the
\* target reported is one above them, above the total hint and the items
\* listed.
C32_Witness ==
  /\ csPc = "listing"
  /\ cs.processed = cs.listedCount /\ cs.processed > 0
  /\ cs.target = cs.processed + 1
  /\ cs.target > Max(cs.totalHint, cs.listedCount)

\* C33: no two body fetches or artifact writes of one run are in flight for
\* the same id, whatever the listing (an id can be listed on two pages of a
\* run when the remote changes between the pages).
C33_NoWriteContention ==
  \A j1, j2 \in busy : j1.id = j2.id => j1 = j2

\* C34: a sync-now the guard turned away because a run is active is answered
\* with an error.
C34_ConflictReported ==
  syncNow.rejected => syncNow.response = "error"

\* C35: a run that holds the guard of the background when its port
\* disconnects with no terminal message clears the guard in the end, with the
\* end of that run recorded in the status (lastSyncFinishedAt).
C35_GuardLiveness ==
  (bgInProgress /\ bgPc = "hung") ~> (~bgInProgress /\ finishRecorded)

\* A full pass was interrupted and its cursor persisted; nothing of it is
\* running any more, another run can start, and neither a failure nor a
\* remote change is to come.
InterruptedFullPass ==
  /\ stored.inventoryInProgress
  /\ stored.inventoryCursor # NoCursor
  /\ ~bgInProgress /\ bgPc = "idle"
  /\ ~csInProgress /\ orphans = << >>
  /\ runCount < MaxRuns
  /\ faults = MaxFaults
  /\ remoteChanges = MaxRemoteChanges

InterruptedPartialPass ==
  /\ runCount > 0 /\ ~lastPass.done
  /\ \E id \in Ids : remote[id] # 0 /\ Get(stored.conversations, id) = remote[id]
  /\ remoteChanges = 0
  /\ stored.lastFullInventoryAt # NullTime /\ ~stored.inventoryInProgress
  /\ ~bgInProgress /\ bgPc = "idle"
  /\ ~csInProgress /\ orphans = << >>
  /\ runCount < MaxRuns
  /\ faults = MaxFaults

\* The watermarks the next run starts from: syncState merged with index.json.
LocalWatermarks == mergeKnownState(stored.conversations, stored.meta, readIndex).conversations

C38_QuietAfterReport ==
  ~csInProgress => (queue = << >> /\ busy = {} /\ orphans = << >>)

\* The step in which the background handles the sync-mode message.
ModeStep ==
  /\ bgPc = "running" /\ chan # << >> /\ Head(chan).type = "sync-mode"
  /\ chan' = Tail(chan)

\* C39: the persisted sync state has inventoryInProgress exactly when it has
\* a cursor; the write of a partial-mode decision and the final save of a
\* completed full pass leave neither.
C39_CursorFlag ==
  /\ [](stored.inventoryInProgress <=> stored.inventoryCursor # NoCursor)
  /\ [][/\ (ModeStep /\ ~Head(chan).fullInventory) =>
            (stored'.inventoryCursor = NoCursor /\ ~stored'.inventoryInProgress)
        /\ (CompleteStep /\ Head(chan).fullInventory) =>
            (stored'.inventoryCursor = NoCursor /\ ~stored'.inventoryInProgress)]_vars

\* A completed full pass has cleared the cursor that a checkpoint had
\* persisted, slim or whole, after a force reset in between.
C39_Witness ==
  /\ lastPass.done /\ ~lastPass.partial
  /\ stored.inventoryCursor = NoCursor /\ ~stored.inventoryInProgress
  /\ stored.lastFullInventoryAt # NullTime
  /\ forceMsg.response = "ok"
  /\ quota = "slim"

\* The items of the pages listed that have not reached the end of
\* processItem or of the skip branch.
RECURSIVE Remaining(_)
Remaining(ps) ==
  IF ps = << >> THEN 0 ELSE Max(Head(ps).remaining, 0) + Remaining(Tail(ps))

\* C40: the queue and the waiting workers are never both non-empty; every
\* item enqueued and not yet processed is in the queue or held by one worker;
\* a worker returns from its loop only when the listing is done and the queue
\* is empty.
C40_QueueHandoff ==
  /\ [](~(queue # << >> /\ queueWaiters > 0))
  /\ [](CsRunning => Remaining(cs.pageStates) = Len(queue) + Cardinality(busy))
  /\ [][exited' > exited => (cs'.listingDone /\ queue' = << >>)]_vars

\* A pool of two has taken three items, one of them from the queue, and both
\* workers have returned.
C40_Witness ==
  /\ csPc = "complete" /\ exited = 2
  /\ cs.processed - cs.skippedCount >= 3

\* C11: idempotence of the partial pass.  When the last background run was a
\* partial pass that completed without item failures and was persisted, and the
\* remote collection has not changed, a listing step of the following partial
\* pass enqueues no body fetch.
C11_Idempotence ==
  [][(/\ lastPass.done /\ lastPass.partial /\ lastPass.errors = 0
      /\ remoteChanges' = 0
      /\ bgPc = "running"
      /\ csPc = "listing" /\ ~cs.forceFullInventory)
     => (queue' = << >> /\ busy' = {})]_vars

\* C10: single active run.  No worker of an earlier run is at work while a
\* content run is listing or draining.
C10_SingleActiveRun == ~(CsRunning /\ orphans # << >>)

====
